---------------------------- MODULE Spec2Model ----------------------------
(***************************************************************************)
(* The in-core inode cache of fs/inode.c (inode_table, iget, iput,        *)
(* get_empty_inode, read_inode, write_inode, sync_inodes,                  *)
(* invalidate_inodes) and kernel/panic.c, as a state machine.              *)
(*                                                                         *)
(* Scheduling is the kernel's: a task that runs kernel code keeps the CPU  *)
(* until it sleeps (sleep_on in wait_on_inode / lock_inode, block I/O in   *)
(* bread / sync_dev) or returns to user mode.  A task's `pc` is the        *)
(* statement it executes next; between two actions every task is in user   *)
(* mode or asleep at its pc.  One action is one such run of one task:      *)
(* `step` executes the statement at the pc, `Run` repeats it until the     *)
(* task sleeps, returns, panics or is found to spin without sleeping.      *)
(* `ev` holds the statements of the last run, one snapshot before each     *)
(* and one after the last.                                                 *)
(*                                                                         *)
(* The ext2 demonstration of tools/demo/vfs/ext2/ext2.c (ext2_superblock,  *)
(* ext2_superblock_vfs, ext2_group_descriptor with its checks, the bitmap  *)
(* loaders, ext2_inode) runs in one task and sleeps only in bread: one     *)
(* action is one call, `ext2_sb` is the super block it works on and        *)
(* `ext2_call` the call made last, with its arguments, its result and the  *)
(* buffer operations it performed (SpecExt2).                              *)
(*                                                                         *)
(* SpecRecord looks at write_inode and read_inode alone, with the device   *)
(* as an array of blocks of inode records: there `disk` maps a block       *)
(* number to its records and `ev` keeps, per inode number, the record      *)
(* written last and the record read since.                                 *)
(*                                                                         *)
(* SpecFull starts the inode cache with every slot referenced.             *)
(* SpecBlockBits applies ext2_check_block_bitmap, and SpecDir              *)
(* ext2_directory, to inputs drawn from bounded sets.                      *)
(***************************************************************************)
EXTENDS Integers, Sequences, FiniteSets, TLC

\* ------------------------------------------------------------- bounds
NR_INODE == 3          \* slots of inode_table
NR_TASKS == 2          \* tasks that make calls
MaxOps == 3          \* calls started in one behaviour
EXT2_MAX_GROUP_LOADED == 3   \* capacity of the ext2 bitmap caches
EXT2_DESC_PER_BLOCK == 4     \* group descriptors in one block (more than the caches hold)
MaxInodesPerGroup == 4       \* largest s_inodes_per_group
MaxInodesPerBlock == 2       \* largest s_inodes_per_block
SmallAddrPerBlock == 2       \* the small value of addr_per_block (beside 256)
MaxBytes == 3                \* bytes of a bitmap given to ext2_counts_free
INODES_PER_BLOCK == 2        \* inode records in one block of the inode table
BitmapBytes == 2             \* bytes of a block bitmap whose bits are checked
ItbPerGroup == 2             \* blocks of the inode table of a group
DirWords == 6                \* 4-byte words of a directory block

NULL == -1
Tasks == 1 .. NR_TASKS
Slots == 0 .. (NR_INODE - 1)
Supers == {0, 1, 2}    \* entries of super_block
Devs == {1, 2, 3}    \* device numbers
Nums == {1, 2}       \* inode numbers of a device
NR_SUPER == Cardinality(Supers)
ROOT_INO == 1

VARIABLES
    inode_table,   \* [Slots -> m_inode]
    last_inode,    \* get_empty_inode's static cursor (a slot)
    super_block,   \* [Supers -> [s_dev, s_imount]]
    disk,          \* [Devs \X Nums -> d_inode]: the inode-table blocks, via the buffer cache
    task,          \* [Tasks -> activation record]
    panicked,      \* panic message, "" while the system runs
    hung,          \* TRUE once a task spins in the kernel without ever sleeping
    refs,          \* [Slots -> Nat]: handles iget returned that were not yet given to iput
    pages,         \* allocated pages (pipe buffers)
    badfree,       \* TRUE once free_page was called on a page that is not allocated
    ops,           \* calls that may still be started
    pair,          \* history: an iget and the iput of its handle, made back to back
    ev,            \* the statements of the last run
    ext2_sb,       \* the ext2 super block (sb->u.ext2_sb) the demonstration works on
    ext2_call      \* the ext2 call made last: arguments, result, buffer operations

vars == <<inode_table, last_inode, super_block, disk, task, panicked, hung,
          refs, pages, badfree, ops, pair, ev, ext2_sb, ext2_call>>

\* ------------------------------------------------------------- data
\* the part of m_inode that is the on-disk record (struct d_inode)
DInode(mode, nlinks, size) == [i_mode |-> mode, i_nlinks |-> nlinks, i_size |-> size]

\* memset(inode, 0, sizeof(*inode))
ZeroInode ==
    [i_mode |-> "none", i_nlinks |-> 0, i_size |-> 0,
     i_dev |-> 0, i_num |-> 0, i_count |-> 0, i_lock |-> 0, i_dirt |-> 0,
     i_pipe |-> 0, i_mount |-> 0]

\* *(struct d_inode *)inode
DPart(ino) == DInode(ino.i_mode, ino.i_nlinks, ino.i_size)

\* *(struct d_inode *)inode = d
WithDPart(ino, d) ==
    [ino EXCEPT !.i_mode = d.i_mode, !.i_nlinks = d.i_nlinks, !.i_size = d.i_size]

\* S_ISBLK(inode->i_mode)
S_ISBLK(mode) == mode = "blk"

\* contents of the inode-table blocks when the file systems were made:
\* inode 2 of device 1 is a block special file, the others are regular
DiskInit ==
    [k \in Devs \X Nums |->
        DInode(IF k = <<1, 2>> THEN "blk" ELSE "reg", 1, 0)]

\* get_super(dev): the super_block entry of dev, NULL when there is none
get_super(dev) ==
    IF \E i \in Supers : super_block[i].s_dev = dev
    THEN CHOOSE i \in Supers : super_block[i].s_dev = dev
    ELSE NULL

\* ------------------------------------------------------------- tasks
IdleTask ==
    [pc |-> "user", ret |-> <<>>,
     dev |-> 0, nr |-> 0, inode |-> NULL, empty |-> NULL,   \* iget
     loading |-> FALSE,    \* history: the slot the scan found was being read in
     dirtied |-> FALSE,    \* history: an inode was changed during this sync_inodes
     pinode |-> NULL,                                        \* iput
     winode |-> NULL,                                        \* read_inode / write_inode
     einode |-> NULL,                                        \* get_empty_inode
     i |-> 0, idev |-> 0]                                    \* sync_inodes / invalidate_inodes

\* statements that are a wait_on_inode
WaitLabels == {"iget_wait", "iput_wait", "iput_wait2", "iput_wait3",
               "gei_wait1", "gei_wait2", "sync_wait", "inv_wait"}
\* statements that are a lock_inode
LockLabels == {"ri_lock", "wi_lock"}
\* statements reached when block I/O completes: the task sleeps before them
IOLabels   == {"ri_copy", "wi_copy", "iput_synced"}

\* the inode a task waits for in wait_on_inode / lock_inode
WaitInode(tk) ==
    CASE tk.pc = "iget_wait" -> tk.inode
      [] tk.pc \in {"iput_wait", "iput_wait2", "iput_wait3"} -> tk.pinode
      [] tk.pc \in {"gei_wait1", "gei_wait2"} -> tk.einode
      [] tk.pc \in {"sync_wait", "inv_wait"} -> tk.i
      [] tk.pc \in LockLabels -> tk.winode

\* the statement after a wait_on_inode / lock_inode
AfterWait(pc) ==
    CASE pc = "iget_wait"  -> "iget_recheck"
      [] pc = "iput_wait"  -> "iput_body"
      [] pc = "iput_wait2" -> "iput_repeat"
      [] pc = "iput_wait3" -> "iput_repeat"
      [] pc = "gei_wait1"  -> "gei_dirt"
      [] pc = "gei_wait2"  -> "gei_dirt"
      [] pc = "sync_wait"  -> "sync_body"
      [] pc = "inv_wait"   -> "inv_body"
      [] pc = "ri_lock"    -> "ri_super"
      [] pc = "wi_lock"    -> "wi_check"

\* The state the statements work on: st.tab is inode_table, st.last is last_inode.
St ==
    [tab |-> inode_table, last |-> last_inode, disk |-> disk, task |-> task,
     panicked |-> panicked, refs |-> refs, pages |-> pages, badfree |-> badfree,
     pair |-> pair]

\* no iget is being followed
NoPair ==
    [phase |-> "none", t |-> 0, h |-> NULL, key |-> <<0, 0>>, dirty0 |-> {}, held0 |-> {}]

\* the keys of the entries of table tab that are dirty
DirtyKeys(tab) ==
    {<<tab[s].i_dev, tab[s].i_num>> : s \in {u \in Slots : tab[u].i_dev # 0 /\ tab[u].i_dirt # 0}}

\* the keys of the entries of table tab that are referenced
HeldKeys(tab) ==
    {<<tab[s].i_dev, tab[s].i_num>> : s \in {u \in Slots : tab[u].i_dev # 0 /\ tab[u].i_count > 0}}

Goto(st, t, pc) == [st EXCEPT !.task[t].pc = pc]

\* a call: continue at `to`, come back to `back`
Call(st, t, to, back) ==
    [st EXCEPT !.task[t].pc = to, !.task[t].ret = <<back>> \o st.task[t].ret]

\* return from the current function; a task back in user mode keeps no locals
Return(st, t) ==
    LET tk == st.task[t]
    IN  IF Head(tk.ret) = "user"
        THEN [st EXCEPT !.task[t] = IdleTask]
        ELSE [st EXCEPT !.task[t].pc = Head(tk.ret), !.task[t].ret = Tail(tk.ret)]

\* ------------------------------------------------------------- panic
\* panic(s): the message is printed and the caller spins in for(;;); no task
\* runs any more.
panic(st, t, s) == [st EXCEPT !.panicked = s, !.task[t].pc = "panic"]

\* ------------------------------------------------------------- locking
\* wait_on_inode(inode), reached with the lock free: the while loop ends
wait_on_inode(st, t) == Goto(st, t, AfterWait(st.task[t].pc))

\* a lock_inode that goes on without taking the lock
C15_lock_inode_nolock(st, t) == Goto(st, t, AfterWait(st.task[t].pc))

\* lock_inode(inode), reached with the lock free: inode->i_lock = 1;
lock_inode(st, t) ==
    Goto([st EXCEPT !.tab[st.task[t].winode].i_lock = 1], t, AfterWait(st.task[t].pc))

\* an unlock_inode that leaves the lock set
C16_unlock_inode_keeps(ino) == ino

\* unlock_inode(inode): inode->i_lock = 0; wake_up(&inode->i_wait);
unlock_inode(ino) == [ino EXCEPT !.i_lock = 0]

\* ------------------------------------------------------------- get_empty_inode
\* the number of steps from the slot after the cursor `last` to slot s, going round
CycDist(last, s) == (s - last - 1) % NR_INODE

\* the slot of the set S that a cyclic scan from the slot after `last` meets first
CycFirst(last, S) == CHOOSE s \in S : \A u \in S : CycDist(last, s) <= CycDist(last, u)

\* a scan that stops at the first unreferenced slot, clean or not
C17_gei_for_anyfree(tab, i, last, ino) ==
    LET free == {s \in Slots : tab[s].i_count = 0}
    IN  IF free = {} THEN <<ino, last>>
        ELSE <<CycFirst(last, free), CycFirst(last, free)>>

\* the for loop of get_empty_inode with i iterations left, the cursor at `last` and
\* the candidate `ino` so far; yields <<inode, last_inode>>
RECURSIVE gei_for(_, _, _, _)
gei_for(tab, i, last, ino) ==
    IF i = 0 THEN <<ino, last>>
    ELSE LET l == IF last + 1 >= NR_INODE THEN 0 ELSE last + 1
         IN  IF tab[l].i_count = 0
             THEN IF tab[l].i_dirt = 0 /\ tab[l].i_lock = 0
                  THEN <<l, l>>
                  ELSE gei_for(tab, i - 1, l, l)
             ELSE gei_for(tab, i - 1, l, ino)

\* a scan that takes slot 0 when it found no unreferenced slot
C3_gei_scan_steal(st, t) ==
    LET r == gei_for(st.tab, NR_INODE, st.last, NULL)
    IN  [st EXCEPT !.last = r[2], !.task[t].pc = "gei_wait1",
                   !.task[t].einode = IF r[1] = NULL THEN 0 ELSE r[1]]

\* do { inode = NULL; for (...) ...; if (!inode) panic(...); wait_on_inode(inode);
gei_scan(st, t) ==
    LET r == gei_for(st.tab, NR_INODE, st.last, NULL)
    IN  IF r[1] = NULL
        THEN panic([st EXCEPT !.last = r[2]], t, "No free inodes in mem")
        ELSE [st EXCEPT !.last = r[2], !.task[t].einode = r[1],
                        !.task[t].pc = "gei_wait1"]

\* the slot is taken as it is, without the write-back loop
C2_gei_dirt_skip(st, t) == Goto(st, t, "gei_check")

\* while (inode->i_dirt) { write_inode(inode); wait_on_inode(inode); }
gei_dirt(st, t) ==
    LET s == st.task[t].einode
    IN  IF st.tab[s].i_dirt # 0
        THEN [Call(st, t, "wi_lock", "gei_wait2") EXCEPT !.task[t].winode = s]
        ELSE Goto(st, t, "gei_check")

\* memset(inode, 0, sizeof(*inode)); inode->i_count = 1;
gei_clear(ino) == [ZeroInode EXCEPT !.i_count = 1]

\* } while (inode->i_count); memset(...); inode->i_count = 1; return inode;
gei_check(st, t) ==
    LET s == st.task[t].einode
    IN  IF st.tab[s].i_count # 0
        THEN [st EXCEPT !.task[t].pc = "gei_scan", !.task[t].einode = NULL]
        ELSE Return([st EXCEPT !.tab[s] = gei_clear(st.tab[s])], t)

\* ------------------------------------------------------------- read_inode
\* if (!(sb = get_super(inode->i_dev))) panic(...); block = ...; bread(...)
ri_super(st, t) ==
    IF get_super(st.tab[st.task[t].winode].i_dev) = NULL
    THEN panic(st, t, "tring to read inode without dev")
    ELSE Goto(st, t, "ri_copy")

\* a load that returns with the inode still locked
C7_ri_copy_nounlock(st, t, ok) ==
    LET s == st.task[t].winode
        k == <<st.tab[s].i_dev, st.tab[s].i_num>>
    IN  IF ~ok
        THEN panic(st, t, "unable to read i_node block")
        ELSE Return([st EXCEPT !.tab[s] = WithDPart(st.tab[s], st.disk[k]),
                               !.task[t].winode = NULL], t)

\* if (!(bh = bread(...))) panic(...); *(struct d_inode *)inode = bh->b_data[...];
\* brelse(bh); unlock_inode(inode);      (ok: bread returned the block)
ri_copy(st, t, ok) ==
    LET s == st.task[t].winode
        k == <<st.tab[s].i_dev, st.tab[s].i_num>>
    IN  IF ~ok
        THEN panic(st, t, "unable to read i_node block")
        ELSE Return([st EXCEPT !.tab[s] = unlock_inode(WithDPart(st.tab[s], st.disk[k])),
                               !.task[t].winode = NULL], t)

\* ------------------------------------------------------------- write_inode
\* if (!inode->i_dirt || !inode->i_dev) { unlock_inode(inode); return; }
\* an early return that marks the inode clean
C39_wi_check_clears(st, t) ==
    LET s == st.task[t].winode
    IN  IF st.tab[s].i_dirt = 0 \/ st.tab[s].i_dev = 0
        THEN Return([st EXCEPT !.tab[s] = unlock_inode([st.tab[s] EXCEPT !.i_dirt = 0]),
                               !.task[t].winode = NULL], t)
        ELSE IF get_super(st.tab[s].i_dev) = NULL
        THEN panic(st, t, "trying to write inode without device")
        ELSE Goto(st, t, "wi_copy")

\* if (!(sb = get_super(inode->i_dev))) panic(...); block = ...; bread(...)
wi_check(st, t) ==
    LET s == st.task[t].winode
    IN  IF st.tab[s].i_dirt = 0 \/ st.tab[s].i_dev = 0
        THEN Return([st EXCEPT !.tab[s] = unlock_inode(st.tab[s]),
                               !.task[t].winode = NULL], t)
        ELSE IF get_super(st.tab[s].i_dev) = NULL
        THEN panic(st, t, "trying to write inode without device")
        ELSE Goto(st, t, "wi_copy")

\* the inode as write_inode leaves it: inode->i_dirt = 0; ... unlock_inode(inode);
wi_written(ino) == unlock_inode([ino EXCEPT !.i_dirt = 0])

\* a store that returns with the inode still locked
C40_wi_copy_locked(st, t, ok) ==
    LET s == st.task[t].winode
        k == <<st.tab[s].i_dev, st.tab[s].i_num>>
    IN  IF ~ok
        THEN panic(st, t, "unable to read i-node block")
        ELSE Return([st EXCEPT !.disk[k] = DPart(st.tab[s]),
                               !.tab[s] = [st.tab[s] EXCEPT !.i_dirt = 0],
                               !.task[t].winode = NULL], t)

\* if (!(bh = bread(...))) panic(...); bh->b_data[...] = *(struct d_inode *)inode;
\* bh->b_dirt = 1; inode->i_dirt = 0; brelse(bh); unlock_inode(inode);
wi_copy(st, t, ok) ==
    LET s == st.task[t].winode
        k == <<st.tab[s].i_dev, st.tab[s].i_num>>
    IN  IF ~ok
        THEN panic(st, t, "unable to read i-node block")
        ELSE Return([st EXCEPT !.disk[k] = DPart(st.tab[s]),
                               !.tab[s] = wi_written(st.tab[s]),
                               !.task[t].winode = NULL], t)

\* ------------------------------------------------------------- iput
\* if (!inode) return; wait_on_inode(inode);
iput(st, t) ==
    IF st.task[t].pinode = NULL
    THEN Return(st, t)
    ELSE Goto(st, t, "iput_wait")

\* a pipe branch that only counts down
C9_iput_pipe_keeps(ino) == [ino EXCEPT !.i_count = ino.i_count - 1]

\* the pipe branch: if (--inode->i_count) return; free_page(inode->i_size);
\* inode->i_count = 0; inode->i_dirt = 0; inode->i_pipe = 0;
iput_pipe(ino) ==
    IF ino.i_count - 1 # 0
    THEN [ino EXCEPT !.i_count = ino.i_count - 1]
    ELSE [ino EXCEPT !.i_count = 0, !.i_dirt = 0, !.i_pipe = 0]

\* free_page(addr): the page is given back; freeing a page twice is an error
free_page(st, addr) ==
    [st EXCEPT !.pages = st.pages \ {addr},
               !.badfree = (st.badfree \/ addr \notin st.pages)]

\* a release that forgets the decrement
C4_iput_dec_none(ino) == ino

\* inode->i_count--
iput_dec(ino) == [ino EXCEPT !.i_count = ino.i_count - 1]

\* a release without the check for a free inode
C5_iput_body_nocheck(st, t) ==
    Return([st EXCEPT !.tab[st.task[t].pinode] = iput_dec(st.tab[st.task[t].pinode])], t)

\* if (!inode->i_count) panic(...); if (inode->i_pipe) {...} if (!inode->i_dev) {...}
\* if (S_ISBLK(inode->i_mode)) { sync_dev(inode->i_zone[0]); wait_on_inode(inode); }
iput_body(st, t) ==
    LET s   == st.task[t].pinode
        ino == st.tab[s]
    IN  IF ino.i_count = 0
        THEN panic(st, t, "iput: trying to free free inode")
        ELSE IF ino.i_pipe # 0
        THEN LET st1 == [st EXCEPT !.tab[s] = iput_pipe(ino)]
             IN  Return(IF ino.i_count - 1 # 0 THEN st1 ELSE free_page(st1, ino.i_size), t)
        ELSE IF ino.i_dev = 0
        THEN Return([st EXCEPT !.tab[s] = iput_dec(ino)], t)
        ELSE IF S_ISBLK(ino.i_mode)
        THEN Goto(st, t, "iput_synced")
        ELSE Goto(st, t, "iput_repeat")

\* sync_dev() has returned: wait_on_inode(inode) follows
iput_synced(st, t) == Goto(st, t, "iput_wait2")

\* truncate(inode); free_inode(inode): the data blocks and the disk record are
\* released and the slot is cleared
free_inode(ino) == ZeroInode

\* a last release that does not write the inode back
C10_iput_repeat_nowrite(st, t) ==
    LET s   == st.task[t].pinode
        ino == st.tab[s]
    IN  IF ino.i_count > 1
        THEN Return([st EXCEPT !.tab[s] = iput_dec(ino)], t)
        ELSE IF ino.i_nlinks = 0
        THEN Return([st EXCEPT !.tab[s] = free_inode(ino)], t)
        ELSE Return([st EXCEPT !.tab[s] = iput_dec(ino)], t)

\* repeat: if (inode->i_count > 1) {...} if (!inode->i_nlinks) {...}
\* if (inode->i_dirt) { write_inode(inode); wait_on_inode(inode); goto repeat; }
\* inode->i_count--; return;
iput_repeat(st, t) ==
    LET s   == st.task[t].pinode
        ino == st.tab[s]
    IN  IF ino.i_count > 1
        THEN Return([st EXCEPT !.tab[s] = iput_dec(ino)], t)
        ELSE IF ino.i_nlinks = 0
        THEN Return([st EXCEPT !.tab[s] = free_inode(ino)], t)
        ELSE IF ino.i_dirt # 0
        THEN [Call(st, t, "wi_lock", "iput_wait3") EXCEPT !.task[t].winode = s]
        ELSE Return([st EXCEPT !.tab[s] = iput_dec(ino)], t)

\* ------------------------------------------------------------- iget
\* if (!dev) panic("iget with dev==0"); empty = get_empty_inode();
iget(st, t) ==
    IF st.task[t].dev = 0
    THEN panic(st, t, "iget with dev==0")
    ELSE Call([st EXCEPT !.pair =
                   IF \A u \in DOMAIN st.task : u # t => st.task[u].pc = "user"
                   THEN [NoPair EXCEPT !.phase = "iget", !.t = t,
                                       !.dirty0 = DirtyKeys(st.tab),
                                       !.held0 = HeldKeys(st.tab)]
                   ELSE NoPair],
              t, "gei_scan", "iget_empty")

\* empty = <the slot get_empty_inode returned>; inode = inode_table;
iget_empty(st, t) ==
    [st EXCEPT !.task[t].pc = "iget_scan", !.task[t].empty = st.task[t].einode,
               !.task[t].einode = NULL, !.task[t].inode = 0]

\* a scan that never matches
C1_iget_find_none(tab, from, dev, nr) == NR_INODE

\* the scan of the while loop: the first slot at or after `from` whose key is
\* (dev, nr), NR_INODE when the scan runs off the table
iget_find(tab, from, dev, nr) ==
    LET hits == {s \in Slots : s >= from /\ tab[s].i_dev = dev /\ tab[s].i_num = nr}
    IN  IF hits = {} THEN NR_INODE
        ELSE CHOOSE s \in hits : \A u \in hits : s <= u

\* while (inode < NR_INODE + inode_table) { if (key differs) { inode++; continue; }
\*     wait_on_inode(inode); ...
\* } if (!empty) return NULL; inode = empty; inode->i_dev = dev; inode->i_num = nr;
\* read_inode(inode);
iget_scan(st, t) ==
    LET tk == st.task[t]
        m  == iget_find(st.tab, tk.inode, tk.dev, tk.nr)
    IN  IF m < NR_INODE
        THEN [st EXCEPT !.task[t].pc = "iget_wait", !.task[t].inode = m,
                        !.task[t].loading =
                            \E u \in DOMAIN st.task :
                                st.task[u].pc = "ri_copy" /\ st.task[u].winode = m]
        ELSE IF tk.empty = NULL
        THEN [st EXCEPT !.task[t] = IdleTask]
        ELSE [Call(st, t, "ri_lock", "iget_ret")
                 EXCEPT !.tab[tk.empty].i_dev = tk.dev, !.tab[tk.empty].i_num = tk.nr,
                        !.task[t].inode = tk.empty, !.task[t].winode = tk.empty]

\* the super_block entry mounted on slot s: for (i = 0; i < NR_SUPER; i++)
\* if (super_block[i].s_imount == inode) break;   (NR_SUPER when there is none)
mounted_sb(s) ==
    LET hits == {i \in Supers : super_block[i].s_imount = s}
    IN  IF hits = {} THEN NR_SUPER
        ELSE CHOOSE i \in hits : \A j \in hits : i <= j

\* a lookup that marks the inode it takes as changed
C14_iget_inc_dirties(ino) == [ino EXCEPT !.i_count = ino.i_count + 1, !.i_dirt = 1]

\* inode->i_count++
iget_inc(ino) == [ino EXCEPT !.i_count = ino.i_count + 1]

\* a hit that returns without releasing the spare slot
C36_iget_recheck_keeps(st, t) ==
    LET tk  == st.task[t]
        s   == tk.inode
        st1 == [st EXCEPT !.tab[s] = iget_inc(st.tab[s])]
    IN  IF st.tab[s].i_dev # tk.dev \/ st.tab[s].i_num # tk.nr
        THEN [st EXCEPT !.task[t].pc = "iget_scan", !.task[t].inode = 0,
                        !.task[t].loading = FALSE]
        ELSE IF st.tab[s].i_mount # 0 /\ mounted_sb(s) < NR_SUPER
        THEN [Call(st1, t, "iput", "iget_mount")
                 EXCEPT !.task[t].pinode = s, !.task[t].i = mounted_sb(s)]
        ELSE Goto(st1, t, "iget_ret")

\* the slot is taken after the wait without comparing the key again
C35_iget_recheck_takes(st, t) ==
    LET tk  == st.task[t]
        s   == tk.inode
        st1 == [st EXCEPT !.tab[s] = iget_inc(st.tab[s])]
    IN  IF st.tab[s].i_mount # 0 /\ mounted_sb(s) < NR_SUPER
        THEN [Call(st1, t, "iput", "iget_mount")
                 EXCEPT !.task[t].pinode = s, !.task[t].i = mounted_sb(s)]
        ELSE IF tk.empty # NULL
        THEN [Call(st1, t, "iput", "iget_ret") EXCEPT !.task[t].pinode = tk.empty]
        ELSE Goto(st1, t, "iget_ret")

\* if (key differs) { inode = inode_table; continue; }  inode->i_count++;
\* if (inode->i_mount) {...}  if (empty) iput(empty);  return inode;
iget_recheck(st, t) ==
    LET tk  == st.task[t]
        s   == tk.inode
        st1 == [st EXCEPT !.tab[s] = iget_inc(st.tab[s])]
    IN  IF st.tab[s].i_dev # tk.dev \/ st.tab[s].i_num # tk.nr
        THEN [st EXCEPT !.task[t].pc = "iget_scan", !.task[t].inode = 0,
                        !.task[t].loading = FALSE]
        ELSE IF st.tab[s].i_mount # 0 /\ mounted_sb(s) < NR_SUPER
        THEN [Call(st1, t, "iput", "iget_mount")
                 EXCEPT !.task[t].pinode = s, !.task[t].i = mounted_sb(s)]
        ELSE IF tk.empty # NULL
        THEN [Call(st1, t, "iput", "iget_ret") EXCEPT !.task[t].pinode = tk.empty]
        ELSE Goto(st1, t, "iget_ret")

\* a redirection that keeps the device of the mount point
C8_iget_mount_samedev(st, t) ==
    [st EXCEPT !.task[t].pc = "iget_scan",
               !.task[t].nr = ROOT_INO, !.task[t].inode = 0, !.task[t].i = 0,
               !.task[t].pinode = NULL, !.task[t].loading = FALSE]

\* dev = super_block[i].s_dev; nr = ROOT_INO; inode = inode_table; continue;
iget_mount(st, t) ==
    [st EXCEPT !.task[t].pc = "iget_scan",
               !.task[t].dev = super_block[st.task[t].i].s_dev,
               !.task[t].nr = ROOT_INO, !.task[t].inode = 0, !.task[t].i = 0,
               !.task[t].pinode = NULL, !.task[t].loading = FALSE]

\* return inode;  the caller now holds one more handle on the slot
iget_ret(st, t) ==
    [st EXCEPT !.refs[st.task[t].inode] = @ + 1, !.task[t] = IdleTask,
               !.pair = IF st.pair.phase = "iget" /\ st.pair.t = t
                        THEN [st.pair EXCEPT !.phase = "got", !.h = st.task[t].inode,
                                             !.key = <<st.task[t].dev, st.task[t].nr>>]
                        ELSE NoPair]

\* ------------------------------------------------------------- sync_inodes
\* the loop header of sync_inodes and invalidate_inodes: i++, inode++; i < NR_INODE
loop_next(st, t, label) ==
    IF st.task[t].i + 1 < NR_INODE
    THEN [st EXCEPT !.task[t].pc = label, !.task[t].i = st.task[t].i + 1]
    ELSE Return(st, t)

\* a walk that writes nothing
C11_sync_body_skip(st, t) == loop_next(st, t, "sync_wait")

\* if (inode->i_dirt && !inode->i_pipe) write_inode(inode);
sync_body(st, t) ==
    LET s == st.task[t].i
    IN  IF st.tab[s].i_dirt # 0 /\ st.tab[s].i_pipe = 0
        THEN [Call(st, t, "wi_lock", "sync_next") EXCEPT !.task[t].winode = s]
        ELSE loop_next(st, t, "sync_wait")

\* write_inode has returned: the next slot
sync_next(st, t) == loop_next(st, t, "sync_wait")

\* ------------------------------------------------------------- invalidate_inodes
\* if (inode->i_dev == dev) { if (inode->i_count) printk(...);
\*     inode->i_dev = inode->i_dirt = 0; }
invalidate(ino, dev) ==
    IF ino.i_dev = dev
    THEN [ino EXCEPT !.i_dev = 0, !.i_dirt = 0]
    ELSE ino

inv_body(st, t) ==
    LET s == st.task[t].i
    IN  loop_next([st EXCEPT !.tab[s] = invalidate(st.tab[s], st.task[t].idev)],
                  t, "inv_wait")

\* ------------------------------------------------------------- running a task
\* the statement at the task's pc (ok: the bread a task slept in gave the block)
step(st, t, ok) ==
    LET pc == st.task[t].pc
    IN  CASE pc \in WaitLabels     -> wait_on_inode(st, t)
          [] pc \in LockLabels     -> lock_inode(st, t)
          [] pc = "gei_scan"       -> gei_scan(st, t)
          [] pc = "gei_dirt"       -> gei_dirt(st, t)
          [] pc = "gei_check"      -> gei_check(st, t)
          [] pc = "ri_super"       -> ri_super(st, t)
          [] pc = "ri_copy"        -> ri_copy(st, t, ok)
          [] pc = "wi_check"       -> wi_check(st, t)
          [] pc = "wi_copy"        -> wi_copy(st, t, ok)
          [] pc = "iput"           -> iput(st, t)
          [] pc = "iput_body"      -> iput_body(st, t)
          [] pc = "iput_synced"    -> iput_synced(st, t)
          [] pc = "iput_repeat"    -> iput_repeat(st, t)
          [] pc = "iget"           -> iget(st, t)
          [] pc = "iget_empty"     -> iget_empty(st, t)
          [] pc = "iget_scan"      -> iget_scan(st, t)
          [] pc = "iget_recheck"   -> iget_recheck(st, t)
          [] pc = "iget_mount"     -> iget_mount(st, t)
          [] pc = "iget_ret"       -> iget_ret(st, t)
          [] pc = "sync_body"      -> sync_body(st, t)
          [] pc = "sync_next"      -> sync_next(st, t)
          [] pc = "inv_body"       -> inv_body(st, t)

\* the task gives up the CPU: it is back in user mode, it has panicked, it is in
\* sleep_on() for a lock that is held, or it waits for block I/O
Blocked(st, t) ==
    LET tk == st.task[t]
    IN  \/ tk.pc \in {"user", "panic"}
        \/ tk.pc \in IOLabels
        \/ tk.pc \in WaitLabels \cup LockLabels /\ st.tab[WaitInode(tk)].i_lock # 0

\* what `ev` keeps of a state
Snap(st, t) ==
    [t |-> t, tk |-> st.task[t], tab |-> st.tab, last |-> st.last, disk |-> st.disk,
     panicked |-> st.panicked, pages |-> st.pages]

\* the task runs until it gives up the CPU; a state that comes back without the
\* task having slept will come back for ever: the kernel hangs
RECURSIVE Run(_, _, _, _)
Run(st, t, seen, tr) ==
    IF Blocked(st, t) THEN [st |-> st, hung |-> FALSE, tr |-> Append(tr, Snap(st, t))]
    ELSE IF st \in seen THEN [st |-> st, hung |-> TRUE, tr |-> Append(tr, Snap(st, t))]
    ELSE CHOOSE r \in {Run(x[1], t, x[2], x[3]) :
                          x \in {<<step(st, t, TRUE), seen \cup {st},
                                   Append(tr, Snap(st, t))>>}} : TRUE

\* the variables after a run
Install(r) ==
    /\ inode_table' = r.st.tab
    /\ last_inode' = r.st.last
    /\ disk' = r.st.disk
    /\ task' = r.st.task
    /\ panicked' = r.st.panicked
    /\ hung' = r.hung
    /\ refs' = r.st.refs
    /\ pages' = r.st.pages
    /\ badfree' = r.st.badfree
    /\ pair' = IF r.st.pair.phase = "iput" /\ r.st.task[r.st.pair.t].pc = "user"
                THEN [r.st.pair EXCEPT !.phase = "done"]
                ELSE r.st.pair
    /\ ev' = r.tr
    /\ UNCHANGED <<super_block, ext2_sb, ext2_call>>

Alive == panicked = "" /\ ~hung

\* A task enters the kernel at statement pc with the locals of tk.
Enter(t, tk) ==
    /\ ops' = ops - 1
    /\ \E r \in {Run([St EXCEPT !.task[t] = tk, !.pair = NoPair], t, {}, <<>>)} :
           Install(r)

\* ------------------------------------------------------------- actions
\* schedule(): a task that sleeps is resumed.  A task in sleep_on() is resumed by
\* wake_up() on the inode's wait queue, that is once the lock is free; a task in
\* bread is resumed when the I/O is done, with the block (ok) or without it.
resume(t, ok) ==
    /\ Alive
    /\ task[t].pc \notin {"user", "panic"}
    /\ task[t].pc \in WaitLabels \cup LockLabels
           => inode_table[WaitInode(task[t])].i_lock = 0
    /\ ~ok => task[t].pc \in {"ri_copy", "wi_copy"}
    /\ \E r \in {Run(x, t, {}, <<Snap(St, t)>>) : x \in {step(St, t, ok)}} :
           Install(r)
    /\ UNCHANGED ops

\* A task in user mode enters the kernel with one of the calls.  Tasks in user mode
\* hold no state of their own, so the call is made by the first of them.
CanCall(t) ==
    /\ Alive /\ ops > 0
    /\ task[t].pc = "user"
    /\ \A u \in Tasks : u < t => task[u].pc # "user"

sys_iget(t, dev, nr) ==
    /\ CanCall(t)
    /\ Enter(t, [IdleTask EXCEPT !.pc = "iget", !.dev = dev, !.nr = nr])

\* iput(h) of a handle that iget returned; the caller gives the handle up
sys_iput(t, h) ==
    /\ CanCall(t)
    /\ refs[h] > 0
    /\ ops' = ops - 1
    /\ \E r \in {Run([St EXCEPT !.refs[h] = refs[h] - 1,
                              !.pair = IF pair.phase = "got" /\ pair.h = h
                                       THEN [pair EXCEPT !.phase = "iput", !.t = t]
                                       ELSE NoPair,
                              !.task[t] = [IdleTask EXCEPT !.pc = "iput",
                                              !.ret = <<"user">>, !.pinode = h]],
                   t, {}, <<>>)} :
           Install(r)

\* iput(NULL), and iput of a slot that nobody holds (a handle released twice)
sys_iput_stale(t, h) ==
    /\ CanCall(t)
    /\ h # NULL => inode_table[h].i_count = 0 /\ inode_table[h].i_lock = 0
    /\ Enter(t, [IdleTask EXCEPT !.pc = "iput", !.ret = <<"user">>, !.pinode = h])

sys_sync_inodes(t) ==
    /\ CanCall(t)
    /\ Enter(t, [IdleTask EXCEPT !.pc = "sync_wait", !.ret = <<"user">>, !.i = 0])

sys_invalidate_inodes(t, dev) ==
    /\ CanCall(t)
    /\ Enter(t, [IdleTask EXCEPT !.pc = "inv_wait", !.ret = <<"user">>, !.i = 0,
                                 !.idev = dev])

\* the task is inside sync_inodes
InSync(tk) ==
    \/ tk.pc \in {"sync_wait", "sync_body", "sync_next"}
    \/ \E k \in 1 .. Len(tk.ret) : tk.ret[k] = "sync_next"

\* the tasks after an inode was changed: a sync_inodes in progress is marked
Dirtied(tasks) ==
    [t \in DOMAIN tasks |->
        IF InSync(tasks[t]) THEN [tasks[t] EXCEPT !.dirtied = TRUE] ELSE tasks[t]]

\* The holder of a handle changes the file (its size here) and marks the inode
\* dirty: inode->i_size = ...; inode->i_dirt = 1;
touch(s) ==
    /\ Alive /\ ops > 0
    /\ refs[s] > 0 /\ inode_table[s].i_pipe = 0
    /\ inode_table' = [inode_table EXCEPT ![s].i_size = 1 - inode_table[s].i_size,
                                          ![s].i_dirt = 1]
    /\ task' = Dirtied(task)
    /\ pair' = NoPair
    /\ ops' = ops - 1
    /\ ev' = <<>>
    /\ UNCHANGED <<last_inode, super_block, disk, panicked, hung, refs,
                   pages, badfree, ext2_sb, ext2_call>>

\* The holder removes the last link: inode->i_nlinks--; inode->i_dirt = 1;
unlink(s) ==
    /\ Alive /\ ops > 0
    /\ refs[s] > 0 /\ inode_table[s].i_pipe = 0 /\ inode_table[s].i_nlinks = 1
    /\ inode_table' = [inode_table EXCEPT ![s].i_nlinks = 0, ![s].i_dirt = 1]
    /\ task' = Dirtied(task)
    /\ pair' = NoPair
    /\ ops' = ops - 1
    /\ ev' = <<>>
    /\ UNCHANGED <<last_inode, super_block, disk, panicked, hung, refs,
                   pages, badfree, ext2_sb, ext2_call>>

\* ------------------------------------------------------------- ext2: data
\* i_data[] of the ext2 inode: 12 direct slots, then the single-, double- and
\* triple-indirect slot
EXT2_NDIR_BLOCKS == 12
EXT2_IND_BLOCK == EXT2_NDIR_BLOCKS
EXT2_DIND_BLOCK == EXT2_IND_BLOCK + 1
EXT2_TIND_BLOCK == EXT2_DIND_BLOCK + 1

CacheIdx == 0 .. (EXT2_MAX_GROUP_LOADED - 1)   \* indexes of s_block_bitmap[] and s_inode_bitmap[]
MaxGroups == EXT2_DESC_PER_BLOCK + 1           \* largest s_groups_count: two descriptor blocks

\* A block number, by where it comes from: the number n itself (base "disk", path
\* <<n>>), the content of i_data[k] (base "i_data", path <<k>>), or the content of
\* entry i of the block with number blk (the path of blk, then i).
Abs(n) == [base |-> "disk", path |-> <<n>>]
IData(k) == [base |-> "i_data", path |-> <<k>>]
Entry(blk, i) == [blk EXCEPT !.path = Append(@, i)]
\* what a released buffer holds once the buffer cache gave it to another block
Lost == [base |-> "lost", path |-> <<>>]

\* the group descriptor of group g as it is on disk
GroupDesc(g) ==
    [bg_block_bitmap |-> 10 * (g + 1) + 1,
     bg_inode_bitmap |-> 10 * (g + 1) + 2,
     bg_inode_table  |-> 10 * (g + 1) + 3]

\* entry desc of the descriptor block sb->u.ext2_sb.s_group_desc[group_desc]
s_group_desc(group_desc, desc) == GroupDesc(group_desc * EXT2_DESC_PER_BLOCK + desc)

\* the super block after raw_sb was zeroed and its fields were set; config is the
\* call that sys_vfs_ext2fs is built with
Ext2Sb(config, groups, ipg, ipb, apb) ==
    [config |-> config,
     s_groups_count |-> groups,
     s_inodes_per_group |-> ipg,
     s_inodes_per_block |-> ipb,
     s_addr_per_block |-> apb,
     s_loaded_block_bitmaps |-> 0,
     s_loaded_inode_bitmaps |-> 0,
     s_block_bitmap_number |-> [i \in CacheIdx |-> 0],
     s_block_bitmap |-> [i \in CacheIdx |-> NULL],
     s_inode_bitmap_number |-> [i \in CacheIdx |-> 0],
     s_inode_bitmap |-> [i \in CacheIdx |-> NULL],
     \* history, kept while the caches are indexed by the group:
     asked_block |-> {},       \* groups whose block bitmap was requested
     failed_block |-> {},      \* groups whose block bitmap was last read in vain
     asked_inode |-> {},       \* groups whose inode bitmap was requested
     \* history, kept while the caches are LRU lists: the groups whose bitmap was
     \* requested, the last one first, each once, as many as a cache holds
     lru_block |-> <<>>,
     lru_inode |-> <<>>]

\* no ext2 call is built in
NoExt2 == Ext2Sb("", 0, 1, 1, 1)

\* the super block after ext2_group_descriptor read the bitmaps of all groups
\* (groups <= EXT2_MAX_GROUP_LOADED)
Populated(sb) ==
    [sb EXCEPT
        !.s_block_bitmap_number = [i \in CacheIdx |-> IF i < sb.s_groups_count THEN i ELSE 0],
        !.s_block_bitmap = [i \in CacheIdx |-> IF i < sb.s_groups_count
                                                 THEN GroupDesc(i).bg_block_bitmap ELSE NULL],
        !.s_inode_bitmap_number = [i \in CacheIdx |-> IF i < sb.s_groups_count THEN i ELSE 0],
        !.s_inode_bitmap = [i \in CacheIdx |-> IF i < sb.s_groups_count
                                                 THEN GroupDesc(i).bg_inode_bitmap ELSE NULL]]

\* again: the group was requested before; failed: its last read failed
\* stray: the places beyond the cache arrays that the call stored at; arg, res: the
\* arguments and the result of a function that is called on its own
NoCall == [fn |-> "", ino |-> 0, index |-> 0, group |-> 0, again |-> FALSE,
           failed |-> FALSE, ret |-> 0, io |-> <<>>, stray |-> {},
           arg |-> <<>>, res |-> <<>>]

\* buffer operations: bread (msg is the panic message of a failed read, "" if the
\* code only prints), a read of entry `index` of the block's data, brelse
Bread(blk, msg) == [op |-> "bread", block |-> blk, index |-> 0, msg |-> msg, ok |-> TRUE]
Deref(blk, i)   == [op |-> "read", block |-> blk, index |-> i, msg |-> "", ok |-> TRUE]
Brelse(blk)     == [op |-> "brelse", block |-> blk, index |-> 0, msg |-> "", ok |-> TRUE]

\* *tmp for tmp = b_data + i of the buffer of block blk.  When the buffer was
\* released before the read and reused since, the value is not the block's.
Load(blk, i, reused) == IF reused THEN Lost ELSE Entry(blk, i)

\* ------------------------------------------------------------- ext2: ext2_inode
\* The inode's record: the block of the inode table and the slot in it.
ext2_inode_raw(sb, ino) ==
    LET block_group == (ino - 1) \div sb.s_inodes_per_group
        group_desc  == block_group \div EXT2_DESC_PER_BLOCK
        desc        == block_group % EXT2_DESC_PER_BLOCK
        block       == s_group_desc(group_desc, desc).bg_inode_table +
                       (((ino - 1) % sb.s_inodes_per_group) \div sb.s_inodes_per_block)
    IN  IF block_group >= sb.s_groups_count
        THEN [panic |-> "EXT2-fs: group > groups count", io |-> <<>>]
        ELSE [panic |-> "",
              io |-> <<Bread(Abs(block), ""),
                       Deref(Abs(block), (ino - 1) % sb.s_inodes_per_block)>>]

\* The data block of logical block `index`: direct, indirect, double-indirect,
\* triply-indirect.  stale = k: the k-th pointer that is read after its buffer was
\* released comes from a reused buffer (0: none).
ext2_inode_block(A, index, stale) ==
    LET b1 == index - EXT2_NDIR_BLOCKS
        b2 == b1 - A
        b3 == b2 - A * A
        ind  == IData(EXT2_IND_BLOCK)
        dind == IData(EXT2_DIND_BLOCK)
        tind == Abs(EXT2_TIND_BLOCK)
    IN  IF index < EXT2_NDIR_BLOCKS
        THEN [io |-> <<>>, block |-> IData(index)]
        ELSE IF b1 < A
        THEN [io |-> <<Bread(ind, "Unable to read indirect-block"),
                       Deref(ind, b1),
                       Brelse(ind)>>,
              block |-> Entry(ind, b1)]
        ELSE IF b2 < A * A
        THEN LET d1 == Load(dind, b2 \div A, stale = 1)
             IN  [io |-> <<Bread(dind, "Unable to load double-block one"),
                           Brelse(dind),
                           Deref(dind, b2 \div A),
                           Bread(d1, "Unable to load double-block two"),
                           Deref(d1, b2 % A),
                           Brelse(d1)>>,
                  block |-> Entry(d1, b2 % A)]
        ELSE IF b3 > 0
        THEN LET t1 == Load(tind, b3 \div (A * A), stale = 1)
                 t2 == Load(t1, (b3 \div A) % A, stale = 2)
             IN  [io |-> <<Bread(tind, "Unable to load triply-block one"),
                           Brelse(tind),
                           Deref(tind, b3 \div (A * A)),
                           Bread(t1, "Unable to load triply-block two"),
                           Brelse(t1),
                           Deref(t1, (b3 \div A) % A),
                           Bread(t2, "Unable to load triply-block three"),
                           Deref(t2, b3 % A),
                           Brelse(t2)>>,
                  block |-> Entry(t2, b3 % A)]
        ELSE [io |-> <<>>, block |-> Abs(b3)]

\* ext2_inode reads at most the inode's block, three indirect blocks and the
\* data block
MaxBreads == 5

\* the indirect blocks read on the way to logical block `index`
Levels(A, index) ==
    LET b1 == index - EXT2_NDIR_BLOCKS
        b2 == b1 - A
        b3 == b2 - A * A
    IN  IF index < EXT2_NDIR_BLOCKS THEN 0
        ELSE IF b1 < A THEN 1
        ELSE IF b2 < A * A THEN 2
        ELSE IF b3 > 0 THEN 3
        ELSE 0

\* the bread operations of a sequence of buffer operations
Breads(io) == SelectSeq(io, LAMBDA e : e.op = "bread")

\* The operations of `plan` when its fail-th bread returns no buffer (0: none does):
\* a read with a panic message ends the call there.
CutAtFail(plan, fail) ==
    LET at == {p \in 1 .. Len(plan) :
                  /\ plan[p].op = "bread"
                  /\ Len(Breads(SubSeq(plan, 1, p))) = fail}
    IN  IF fail = 0 \/ at = {}
        THEN [panic |-> "", io |-> plan]
        ELSE LET p == CHOOSE q \in at : TRUE
                 failed == [plan EXCEPT ![p].ok = FALSE]
             IN  IF plan[p].msg # ""
                 THEN [panic |-> plan[p].msg, io |-> SubSeq(failed, 1, p)]
                 ELSE [panic |-> "", io |-> failed]

\* The comparisons of the in-core inode with its record, in the order of the code:
\* the message of the panic that each difference ends in.
FieldPanics ==
    <<"Error on i_mode", "Error on i_uid", "Error on i_size", "Error on create time!",
      "Error on symbolic link.", "Error on block number", "Error on inode flags">>

\* ext2_inode(sb, inode) for inode number ino and the file's logical block `index`
\* (block = offset / s_blocksize; the demonstration passes offset 0).
\*   fail:  the bread that returns no buffer (0: none)
\*   stale: the pointer that is read from a reused buffer (0: none)
\*   differs: the first field of the in-core inode that is not as in its record in
\*            the inode table, as an index of FieldPanics (0: none)
\*   trap:  dereferencing the missing buffer of the inode table faults
\* (inputs that a call does not get to use are left at 0 / FALSE)
Ext2Inode(ino, index, fail, stale, differs, trap) ==
    /\ panicked = ""
    /\ ext2_sb.config = "inode"
    /\ ext2_call.fn = ""
    /\ trap => fail = 1
    /\ differs # 0 => fail <= 1 /\ stale = 0
    /\ fail <= Levels(ext2_sb.s_addr_per_block, index) + 2
    /\ stale = 0 \/ stale < Levels(ext2_sb.s_addr_per_block, index)
    /\ LET raw  == ext2_inode_raw(ext2_sb, ino)
           res  == ext2_inode_block(ext2_sb.s_addr_per_block, index, stale)
           plan == raw.io \o res.io
                     \o <<Bread(res.block, "Unable to load buffer from disk"),
                          Brelse(res.block)>>
                     \o (IF fail = 1 \/ raw.panic # "" THEN <<>>
                         ELSE <<Brelse(raw.io[1].block)>>)
           cut  == CutAtFail(plan, fail)
           out  == IF raw.panic # "" THEN raw
                   ELSE IF fail = 1 /\ trap
                   THEN [panic |-> "NULL buffer dereferenced",
                         io |-> <<[raw.io[1] EXCEPT !.ok = FALSE]>>]
                   ELSE IF differs # 0
                   THEN [panic |-> FieldPanics[differs],
                         io |-> IF fail = 1
                                THEN <<[raw.io[1] EXCEPT !.ok = FALSE], raw.io[2]>>
                                ELSE raw.io]
                   ELSE cut
       IN  /\ ext2_call' = [NoCall EXCEPT !.fn = "ext2_inode", !.ino = ino,
                                          !.index = index, !.io = out.io]
           /\ panicked' = out.panic
    /\ UNCHANGED <<inode_table, last_inode, super_block, disk, task, hung, refs,
                   pages, badfree, ops, pair, ev, ext2_sb>>

\* ------------------------------------------------------------- ext2: bitmaps
\* get_group_desc(sb, block_group, NULL)
get_group_desc(sb, block_group) ==
    IF block_group >= sb.s_groups_count
    THEN [panic |-> "get_group_desc: block_group > groups_count", gdp |-> GroupDesc(0)]
    ELSE [panic |-> "",
          gdp |-> s_group_desc(block_group \div EXT2_DESC_PER_BLOCK,
                               block_group % EXT2_DESC_PER_BLOCK)]

\* read_block_bitmap(sb, block_group, bitmap_nr): a failed read is printed and the
\* missing buffer is stored
read_block_bitmap(sb, block_group, bitmap_nr, ok) ==
    LET d == get_group_desc(sb, block_group)
    IN  IF d.panic # ""
        THEN [sb |-> sb, io |-> <<>>, panic |-> d.panic]
        ELSE [sb |-> [sb EXCEPT !.s_block_bitmap_number[bitmap_nr] = block_group,
                                !.s_block_bitmap[bitmap_nr] =
                                    IF ok THEN d.gdp.bg_block_bitmap ELSE NULL],
              io |-> <<[Bread(Abs(d.gdp.bg_block_bitmap), "") EXCEPT !.ok = ok]>>,
              panic |-> ""]

\* read_inode_bitmap(sb, block_group, bitmap_nr): a failed read panics
read_inode_bitmap(sb, block_group, bitmap_nr, ok) ==
    LET d == get_group_desc(sb, block_group)
    IN  IF d.panic # ""
        THEN [sb |-> sb, io |-> <<>>, panic |-> d.panic]
        ELSE IF ~ok
        THEN [sb |-> sb,
              io |-> <<[Bread(Abs(d.gdp.bg_inode_bitmap), "cannot read inode bitmap")
                           EXCEPT !.ok = FALSE]>>,
              panic |-> "cannot read inode bitmap"]
        ELSE [sb |-> [sb EXCEPT !.s_inode_bitmap_number[bitmap_nr] = block_group,
                                !.s_inode_bitmap[bitmap_nr] = d.gdp.bg_inode_bitmap],
              io |-> <<Bread(Abs(d.gdp.bg_inode_bitmap), "cannot read inode bitmap")>>,
              panic |-> ""]

\* a move to the front that exchanges entry i with entry 0
C21_ShiftDown_swaps(f, i, first) ==
    [j \in CacheIdx |-> IF j = 0 THEN first ELSE IF j = i THEN f[0] ELSE f[j]]

\* for (j = i; j > 0; j--) f[j] = f[j - 1]; f[0] = first;
ShiftDown(f, i, first) ==
    [j \in CacheIdx |-> IF j = 0 THEN first ELSE IF j <= i THEN f[j - 1] ELSE f[j]]

\* an LRU part whose miss counts one more entry also when the cache is full
C37_lru_bitmap_grows(sb, nr, bm, ld, block_group) ==
    LET hits == {i \in CacheIdx : i < sb[ld] /\ sb[nr][i] = block_group}
    IN  IF hits # {}
        THEN LET i == CHOOSE h \in hits : \A k \in hits : h <= k
             IN  [hit |-> TRUE,
                  sb |-> [sb EXCEPT ![nr] = ShiftDown(sb[nr], i, sb[nr][i]),
                                    ![bm] = ShiftDown(sb[bm], i, sb[bm][i])],
                  io |-> <<>>]
        ELSE LET loaded == IF sb[ld] <= EXT2_MAX_GROUP_LOADED THEN sb[ld] + 1 ELSE sb[ld]
             IN  [hit |-> FALSE,
                  sb |-> [sb EXCEPT ![ld] = loaded,
                                    ![nr] = ShiftDown(sb[nr], loaded - 1, sb[nr][0]),
                                    ![bm] = ShiftDown(sb[bm], loaded - 1, sb[bm][0])],
                  io |-> <<>>]

\* The LRU part of load__block_bitmap and of load_inode_bitmap, on the cache held in
\* the fields nr (group numbers), bm (buffers) and ld (loaded count) of sb.  The
\* result is the cache before the bitmap is read into index 0 (hit: nothing is read).
lru_bitmap(sb, nr, bm, ld, block_group) ==
    LET hits == {i \in CacheIdx : i < sb[ld] /\ sb[nr][i] = block_group}
    IN  IF hits # {}
        THEN LET i == CHOOSE h \in hits : \A k \in hits : h <= k
             IN  [hit |-> TRUE,
                  sb |-> [sb EXCEPT ![nr] = ShiftDown(sb[nr], i, sb[nr][i]),
                                    ![bm] = ShiftDown(sb[bm], i, sb[bm][i])],
                  io |-> <<>>]
        ELSE LET full   == ~(sb[ld] < EXT2_MAX_GROUP_LOADED)
                 loaded == IF full THEN sb[ld] ELSE sb[ld] + 1
             IN  [hit |-> FALSE,
                  sb |-> [sb EXCEPT ![ld] = loaded,
                                    ![nr] = ShiftDown(sb[nr], loaded - 1, sb[nr][0]),
                                    ![bm] = ShiftDown(sb[bm], loaded - 1, sb[bm][0])],
                  io |-> IF full
                         THEN <<Brelse(Abs(sb[bm][EXT2_MAX_GROUP_LOADED - 1]))>>
                         ELSE <<>>]

\* load__block_bitmap(sb, block_group)
load__block_bitmap(sb, block_group, ok) ==
    IF block_group >= sb.s_groups_count
    THEN [sb |-> sb, ret |-> 0, io |-> <<>>, panic |-> "block_group >= groups_count"]
    ELSE IF sb.s_groups_count <= EXT2_MAX_GROUP_LOADED
    THEN IF sb.s_block_bitmap[block_group] # NULL
         THEN [sb |-> sb, ret |-> block_group, io |-> <<>>,
               panic |-> IF sb.s_block_bitmap_number[block_group] # block_group
                         THEN "block_group != block_bitmap_number" ELSE ""]
         ELSE LET r == read_block_bitmap(sb, block_group, block_group, ok)
              IN  [sb |-> r.sb, ret |-> block_group, io |-> r.io, panic |-> r.panic]
    ELSE LET l == lru_bitmap(sb, "s_block_bitmap_number", "s_block_bitmap",
                             "s_loaded_block_bitmaps", block_group)
             r == read_block_bitmap(l.sb, block_group, 0, ok)
         IN  IF l.hit
             THEN [sb |-> l.sb, ret |-> 0, io |-> <<>>, panic |-> ""]
             ELSE [sb |-> r.sb, ret |-> 0, io |-> l.io \o r.io, panic |-> r.panic]

\* load_block_bitmap that reads the bitmap at every request
C20_load_block_bitmap_rereads(sb, block_group, ok) ==
    IF block_group >= sb.s_groups_count \/ sb.s_groups_count > EXT2_MAX_GROUP_LOADED
    THEN load__block_bitmap(sb, block_group, ok)
    ELSE LET r == read_block_bitmap(sb, block_group, block_group, ok)
         IN  [sb |-> r.sb, ret |-> block_group, io |-> r.io, panic |-> r.panic]

\* load_block_bitmap(sb, block_group)
load_block_bitmap(sb, block_group, ok) ==
    IF sb.s_loaded_block_bitmaps > 0 /\ sb.s_block_bitmap_number[0] = block_group
    THEN [sb |-> sb, ret |-> 0, io |-> <<>>, panic |-> ""]
    ELSE IF /\ sb.s_groups_count <= EXT2_MAX_GROUP_LOADED
            /\ sb.s_block_bitmap_number[block_group] = block_group
            /\ sb.s_block_bitmap[block_group] # NULL
    THEN [sb |-> sb, ret |-> block_group, io |-> <<>>, panic |-> ""]
    ELSE load__block_bitmap(sb, block_group, ok)

\* load_inode_bitmap(sb, block_group): a group beyond the count is only printed
load_inode_bitmap(sb, block_group, ok) ==
    IF sb.s_loaded_inode_bitmaps > 0 /\ sb.s_inode_bitmap_number[0] = block_group
    THEN [sb |-> sb, ret |-> 0, io |-> <<>>, panic |-> ""]
    ELSE IF sb.s_groups_count <= EXT2_MAX_GROUP_LOADED
    THEN IF sb.s_inode_bitmap[block_group] # NULL
         THEN [sb |-> sb, ret |-> block_group, io |-> <<>>,
               panic |-> IF sb.s_inode_bitmap_number[block_group] # block_group
                         THEN "block_group != inode_bitmap_number" ELSE ""]
         ELSE LET r == read_inode_bitmap(sb, block_group, block_group, ok)
              IN  [sb |-> r.sb, ret |-> block_group, io |-> r.io, panic |-> r.panic]
    ELSE LET l == lru_bitmap(sb, "s_inode_bitmap_number", "s_inode_bitmap",
                             "s_loaded_inode_bitmaps", block_group)
             r == read_inode_bitmap(l.sb, block_group, 0, ok)
         IN  IF l.hit
             THEN [sb |-> l.sb, ret |-> 0, io |-> <<>>, panic |-> ""]
             ELSE [sb |-> IF r.panic = "" THEN r.sb ELSE l.sb,
                   ret |-> 0, io |-> l.io \o r.io, panic |-> r.panic]

\* The groups a bitmap is requested for: those of the file system and the first one
\* beyond them, where that one is an index of the cache arrays or the arrays are not
\* indexed by the group (LRU).
GroupArgs(sb) ==
    {g \in 0 .. sb.s_groups_count :
        \/ g < sb.s_groups_count
        \/ g < EXT2_MAX_GROUP_LOADED
        \/ sb.s_groups_count > EXT2_MAX_GROUP_LOADED}

\* the two caches: the fields of the group numbers, of the buffers and of the
\* loaded count, the reference list, the descriptor's field and the load
Caches ==
    {[nr |-> "s_block_bitmap_number", bm |-> "s_block_bitmap",
      ld |-> "s_loaded_block_bitmaps", ref |-> "lru_block",
      bg |-> "bg_block_bitmap", fn |-> "load_block_bitmap"],
     [nr |-> "s_inode_bitmap_number", bm |-> "s_inode_bitmap",
      ld |-> "s_loaded_inode_bitmaps", ref |-> "lru_inode",
      bg |-> "bg_inode_bitmap", fn |-> "load_inode_bitmap"]}

\* the reference list `ref` after group g was requested
MoveToFront(ref, g) ==
    LET l == <<g>> \o SelectSeq(ref, LAMBDA x : x # g)
    IN  SubSeq(l, 1, IF Len(l) > EXT2_MAX_GROUP_LOADED THEN EXT2_MAX_GROUP_LOADED ELSE Len(l))

\* The super block r.sb that the load fn of group g made of sb0, with the history of
\* the requests brought up to date.
WithHistory(sb0, fn, g, r) ==
    LET sb_small == sb0.s_groups_count <= EXT2_MAX_GROUP_LOADED
        reads    == Breads(r.io)
    IN  IF fn = "load_block_bitmap"
        THEN [r.sb EXCEPT
                 !.asked_block = IF sb_small THEN @ \cup {g} ELSE @,
                 !.failed_block = IF ~sb_small \/ reads = <<>> THEN @
                                  ELSE IF ~reads[1].ok THEN @ \cup {g}
                                  ELSE @ \ {g},
                 !.lru_block = IF sb_small \/ r.panic # "" THEN @
                               ELSE MoveToFront(@, g)]
        ELSE [r.sb EXCEPT
                 !.asked_inode = IF sb_small THEN @ \cup {g} ELSE @,
                 !.lru_inode = IF sb_small \/ r.panic # "" THEN @
                               ELSE MoveToFront(@, g)]

\* a call of load_block_bitmap(sb, block_group); ok: bread returns the buffer.
\* (The two caches share no field: a run that uses them as LRU lists uses one.)
LoadBlockBitmap(block_group, ok) ==
    /\ panicked = ""
    /\ ext2_sb.config = "group_desc"
    /\ ext2_call.fn # "ext2_group_descriptor"
    /\ ext2_sb.lru_inode = <<>>
    /\ block_group \in GroupArgs(ext2_sb)
    /\ LET r == load_block_bitmap(ext2_sb, block_group, ok)
       IN  /\ ext2_sb' = WithHistory(ext2_sb, "load_block_bitmap", block_group, r)
           /\ ext2_call' = [NoCall EXCEPT !.fn = "load_block_bitmap",
                                          !.group = block_group,
                                          !.again = block_group \in ext2_sb.asked_block,
                                          !.failed = block_group \in ext2_sb.failed_block,
                                          !.ret = r.ret, !.io = r.io]
           /\ panicked' = r.panic
    /\ UNCHANGED <<inode_table, last_inode, super_block, disk, task, hung, refs,
                   pages, badfree, ops, pair, ev>>

\* a call of load_inode_bitmap(sb, block_group); ok: bread returns the buffer
LoadInodeBitmap(block_group, ok) ==
    /\ panicked = ""
    /\ ext2_sb.config = "group_desc"
    /\ ext2_call.fn # "ext2_group_descriptor"
    /\ ext2_sb.lru_block = <<>>
    /\ block_group \in GroupArgs(ext2_sb)
    /\ LET r == load_inode_bitmap(ext2_sb, block_group, ok)
       IN  /\ ext2_sb' = WithHistory(ext2_sb, "load_inode_bitmap", block_group, r)
           /\ ext2_call' = [NoCall EXCEPT !.fn = "load_inode_bitmap",
                                          !.group = block_group,
                                          !.again = block_group \in ext2_sb.asked_inode,
                                          !.ret = r.ret, !.io = r.io]
           /\ panicked' = r.panic
    /\ UNCHANGED <<inode_table, last_inode, super_block, disk, task, hung, refs,
                   pages, badfree, ops, pair, ev>>

\* ------------------------------------------------------------- ext2: ext2_group_descriptor
SUPER_BLOCK == 1
EINVAL == 22

\* indexes beyond the cache arrays that a group number reaches
FarIdx == EXT2_MAX_GROUP_LOADED .. (MaxGroups - 1)

\* A call that reads blocks: the super block, the buffer operations so far, the label
\* the code is at ("run": straight on), what was stored beyond the cache arrays
\* (stray: the places, far: the buffers, as block numbers by origin).
Gd(sb) ==
    [sb |-> sb, io |-> <<>>, at |-> "run", panic |-> "", ret |-> 0, stray |-> {},
     far |-> [a \in {"s_block_bitmap", "s_inode_bitmap"} |-> [i \in FarIdx |-> Abs(NULL)]]]

\* the next bread of the call returns a buffer (fail: the bread that does not)
NextOk(m, fail) == Len(Breads(m.io)) + 1 # fail

Do(m, e) == [m EXCEPT !.io = Append(@, e)]

\* the call goes on at the statement below
Running(m) == m.at = "run" /\ m.panic = ""

\* gdp[i].field for gdp = the data of the first descriptor block: past the end of the
\* block for i >= EXT2_DESC_PER_BLOCK
gdp0(i, field) == IF i < EXT2_DESC_PER_BLOCK THEN Abs(GroupDesc(i)[field]) ELSE Lost

\* array[i] = v for a cache array; an index beyond the array is undefined behaviour:
\* with trap the store ends the call, without it the store lands in memory that
\* nothing else uses
SetNumber(m, c, i, v, trap) ==
    IF i \in CacheIdx THEN [m EXCEPT !.sb[c.nr][i] = v]
    ELSE [m EXCEPT !.stray = @ \cup {[array |-> c.nr, index |-> i]},
                   !.panic = IF trap THEN "store beyond the bitmap cache" ELSE @]

SetBuffer(m, c, i, blk, trap) ==
    IF i \in CacheIdx THEN [m EXCEPT !.sb[c.bm][i] = blk.path[1]]
    ELSE [m EXCEPT !.stray = @ \cup {[array |-> c.bm, index |-> i]},
                   !.far[c.bm][i] = blk,
                   !.panic = IF trap THEN "store beyond the bitmap cache" ELSE @]

\* array[i] of the buffers of a cache
GetBuffer(m, c, i) == IF i \in CacheIdx THEN Abs(m.sb[c.bm][i]) ELSE m.far[c.bm][i]

\* for (j = from; j < to; j++) { number[j] = 0; brelse(bitmap[j]); }
RECURSIVE gd_release(_, _, _, _, _)
gd_release(m, c, j, to, trap) ==
    IF j >= to \/ m.panic # "" THEN m
    ELSE LET m1 == SetNumber(m, c, j, 0, trap)
         IN  IF m1.panic # "" THEN m1
             ELSE gd_release(Do(m1, Brelse(GetBuffer(m1, c, j))), c, j + 1, to, trap)

\* if (!es) { bh = bread(SUPER_BLOCK); if (!bh) goto out; }
gd_super(m, fail) ==
    LET ok == NextOk(m, fail)
        m1 == Do(m, [Bread(Abs(SUPER_BLOCK), "") EXCEPT !.ok = ok])
    IN  IF ok THEN m1 ELSE [m1 EXCEPT !.at = "out", !.ret = -EINVAL]

\* the number of descriptor blocks
bh_count(sb) == (sb.s_groups_count + EXT2_DESC_PER_BLOCK - 1) \div EXT2_DESC_PER_BLOCK

\* for (i = 0; i < bh_count; i++) { s_group_desc[i] = bread(SUPER_BLOCK + i + 1);
\*   if (!s_group_desc[i]) { brelse of those read; brelse(bh); goto out1; } }
RECURSIVE gd_desc(_, _, _)
gd_desc(m, i, fail) ==
    IF ~Running(m) \/ i >= bh_count(m.sb) THEN m
    ELSE LET ok == NextOk(m, fail)
             m1 == Do(m, [Bread(Abs(SUPER_BLOCK + i + 1), "") EXCEPT !.ok = ok])
         IN  IF ok THEN gd_desc(m1, i + 1, fail)
             ELSE [m1 EXCEPT !.io = @ \o [j \in 1 .. i |-> Brelse(Abs(SUPER_BLOCK + j))]
                                      \o <<Brelse(Abs(SUPER_BLOCK))>>,
                             !.at = "out1", !.ret = -EINVAL]

\* for (i = 0; i < s_groups_count; i++) { number[i] = i; bitmap[i] = bread(gdp[i]...);
\*   if (!bitmap[i]) { for (j = 0; j < i; j++) { number[j] = 0; brelse(bitmap[j]); }
\*                     goto out; } }
RECURSIVE gd_populate(_, _, _, _, _, _)
gd_populate(m, c, i, out, fail, trap) ==
    IF ~Running(m) \/ i >= m.sb.s_groups_count THEN m
    ELSE LET m1  == SetNumber(m, c, i, i, trap)
             ok  == NextOk(m1, fail)
             blk == gdp0(i, c.bg)
             m2  == Do(m1, [Bread(blk, "") EXCEPT !.ok = ok])
             m3  == SetBuffer(m2, c, i, IF ok THEN blk ELSE Abs(NULL), trap)
         IN  IF m1.panic # "" THEN m1
             ELSE IF m3.panic # "" THEN m3
             ELSE IF ok THEN gd_populate(m3, c, i + 1, out, fail, trap)
             ELSE LET m4 == gd_release(m3, c, 0, i, trap)
                  IN  IF m4.panic # "" THEN m4
                      ELSE [m4 EXCEPT !.at = out, !.ret = -EINVAL]

\* if (!(itbh = bread(gdp->bg_inode_table))) goto out4;
gd_itb(m, fail) ==
    IF ~Running(m) THEN m
    ELSE LET ok == NextOk(m, fail)
             m1 == Do(m, [Bread(Abs(GroupDesc(0).bg_inode_table), "") EXCEPT !.ok = ok])
         IN  IF ok THEN m1 ELSE [m1 EXCEPT !.at = "out4", !.ret = -EINVAL]

\* The loop of ext2_check_block_bitmap from group i on: get_group_desc, the load, and
\* the tests of bh->b_data.  When the load left no buffer, bh->b_data is undefined
\* behaviour: with trap the access faults, without it the tests read whatever is
\* there and the loop goes on.
RECURSIVE check_block_groups(_, _, _, _)
check_block_groups(m, i, fail, trap) ==
    IF m.panic # "" \/ i >= m.sb.s_groups_count THEN m
    ELSE LET r   == load_block_bitmap(m.sb, i, NextOk(m, fail))
             sb1 == WithHistory(m.sb, "load_block_bitmap", i, r)
             bh  == sb1.s_block_bitmap[r.ret]
             m1  == [m EXCEPT !.sb = sb1, !.io = @ \o r.io \o <<Deref(Abs(bh), 0)>>]
         IN  IF r.panic # ""
             THEN [m EXCEPT !.sb = r.sb, !.io = @ \o r.io, !.panic = r.panic]
             ELSE IF bh = NULL /\ trap
             THEN [m1 EXCEPT !.panic = "NULL buffer dereferenced"]
             ELSE check_block_groups(m1, i + 1, fail, trap)

\* ext2_check_block_bitmap(sb)
ext2_check_block_bitmap(m, fail, trap) ==
    IF ~Running(m) THEN m ELSE check_block_groups(m, 0, fail, trap)

\* The loop of ext2_check_inode_bitmap from group i on: get_group_desc, the load, and
\* ext2_counts_free of the bitmap (which reads no data of a missing one).
RECURSIVE check_inode_groups(_, _, _)
check_inode_groups(m, i, fail) ==
    IF m.panic # "" \/ i >= m.sb.s_groups_count THEN m
    ELSE LET r   == load_inode_bitmap(m.sb, i, NextOk(m, fail))
             sb1 == WithHistory(m.sb, "load_inode_bitmap", i, r)
             bh  == sb1.s_inode_bitmap[r.ret]
             m1  == [m EXCEPT !.sb = sb1,
                              !.io = @ \o r.io \o (IF bh = NULL THEN <<>>
                                                   ELSE <<Deref(Abs(bh), 0)>>)]
         IN  IF r.panic # ""
             THEN [m EXCEPT !.sb = r.sb, !.io = @ \o r.io, !.panic = r.panic]
             ELSE check_inode_groups(m1, i + 1, fail)

\* ext2_check_inode_bitmap(sb)
ext2_check_inode_bitmap(m, fail) ==
    IF ~Running(m) THEN m ELSE check_inode_groups(m, 0, fail)

\* if (itbh) brelse(itbh);
gd_itb_release(m) ==
    IF ~Running(m) THEN m ELSE Do(m, Brelse(Abs(GroupDesc(0).bg_inode_table)))

\* out4, out3: for (i = 0; i < s_groups_count; i++) { number[i] = 0; brelse(bitmap[i]); }
gd_out(m, c, labels, trap) ==
    IF m.panic # "" \/ m.at \notin labels THEN m
    ELSE gd_release(m, c, 0, m.sb.s_groups_count, trap)

\* out2: for (i = 0; i < bh_count; i++) brelse(s_group_desc[i]);
gd_out2(m) ==
    IF m.panic # "" \/ m.at \notin {"run", "out4", "out3", "out2"} THEN m
    ELSE [m EXCEPT !.io = @ \o [j \in 1 .. bh_count(m.sb) |-> Brelse(Abs(SUPER_BLOCK + j))]]

\* out1: if (bh) brelse(bh);
gd_out1(m) ==
    IF m.panic # "" \/ m.at = "out" THEN m ELSE Do(m, Brelse(Abs(SUPER_BLOCK)))

\* The k-th statement of ext2_group_descriptor(raw_sb), in the order of the source:
\* the super block, the descriptor blocks, the two bitmap caches, the inode table
\* block, the checks (the result of ext2_check_descriptors is not used and the
\* function changes nothing), and the releases at the labels out4 .. out1.
gd_statement(m, k, fail, trap) ==
    LET block == CHOOSE c \in Caches : c.fn = "load_block_bitmap"
        inode == CHOOSE c \in Caches : c.fn = "load_inode_bitmap"
    IN  CASE k = 1  -> gd_super(m, fail)
          [] k = 2  -> gd_desc(m, 0, fail)
          [] k = 3  -> gd_populate(m, block, 0, "out2", fail, trap)
          [] k = 4  -> gd_populate(m, inode, 0, "out3", fail, trap)
          [] k = 5  -> gd_itb(m, fail)
          [] k = 6  -> ext2_check_block_bitmap(m, fail, trap)
          [] k = 7  -> ext2_check_inode_bitmap(m, fail)
          [] k = 8  -> gd_itb_release(m)
          [] k = 9  -> gd_out(m, inode, {"run", "out4"}, trap)
          [] k = 10 -> gd_out(m, block, {"run", "out4", "out3"}, trap)
          [] k = 11 -> gd_out2(m)
          [] OTHER  -> gd_out1(m)

\* the statements of ext2_group_descriptor from the k-th on
RECURSIVE gd_from(_, _, _, _)
gd_from(m, k, fail, trap) ==
    IF k > 12 THEN m ELSE gd_from(gd_statement(m, k, fail, trap), k + 1, fail, trap)

\* ext2_group_descriptor(raw_sb) on the zeroed super block of sys_vfs_ext2fs (s_es is
\* NULL, so the super block is read)
ext2_group_descriptor(sb, fail, trap) == gd_from(Gd(sb), 1, fail, trap)

\* sys_vfs_ext2fs built with the group descriptor checks: ext2_group_descriptor on
\* the fresh super block.
\*   fail: the bread that returns no buffer (0: none)
\*   trap: undefined behaviour ends the call
Ext2GroupDescriptor(fail, trap) ==
    /\ panicked = ""
    /\ ext2_sb.config = "group_desc"
    /\ ext2_call.fn = ""
    /\ ext2_sb = Ext2Sb("group_desc", ext2_sb.s_groups_count, MaxInodesPerGroup,
                        MaxInodesPerBlock, SmallAddrPerBlock)
    /\ fail <= Len(Breads(ext2_group_descriptor(ext2_sb, 0, trap).io))
    /\ LET m == ext2_group_descriptor(ext2_sb, fail, trap)
       IN  /\ ext2_sb' = m.sb
           /\ ext2_call' = [NoCall EXCEPT !.fn = "ext2_group_descriptor",
                                          !.ret = m.ret, !.io = m.io, !.stray = m.stray]
           /\ panicked' = m.panic
    /\ UNCHANGED <<inode_table, last_inode, super_block, disk, task, hung, refs,
                   pages, badfree, ops, pair, ev>>

\* a call of ext2_check_block_bitmap(sb) on the caches as they are
CheckBlockBitmap(fail, trap) ==
    /\ panicked = ""
    /\ ext2_sb.config = "group_desc"
    /\ ext2_call.fn # "ext2_group_descriptor"
    /\ ext2_sb.lru_inode = <<>>
    /\ fail <= ext2_sb.s_groups_count
    /\ LET m == ext2_check_block_bitmap(Gd(ext2_sb), fail, trap)
       IN  /\ ext2_sb' = m.sb
           /\ ext2_call' = [NoCall EXCEPT !.fn = "ext2_check_block_bitmap", !.io = m.io]
           /\ panicked' = m.panic
    /\ UNCHANGED <<inode_table, last_inode, super_block, disk, task, hung, refs,
                   pages, badfree, ops, pair, ev>>

\* a call of ext2_check_inode_bitmap(sb) on the caches as they are
CheckInodeBitmap(fail) ==
    /\ panicked = ""
    /\ ext2_sb.config = "group_desc"
    /\ ext2_call.fn # "ext2_group_descriptor"
    /\ ext2_sb.lru_block = <<>>
    /\ fail <= ext2_sb.s_groups_count
    /\ LET m == ext2_check_inode_bitmap(Gd(ext2_sb), fail)
       IN  /\ ext2_sb' = m.sb
           /\ ext2_call' = [NoCall EXCEPT !.fn = "ext2_check_inode_bitmap", !.io = m.io]
           /\ panicked' = m.panic
    /\ UNCHANGED <<inode_table, last_inode, super_block, disk, task, hung, refs,
                   pages, badfree, ops, pair, ev>>

\* ------------------------------------------------------------- ext2: ext2_superblock, ext2_superblock_vfs
\* ext2_superblock(raw_sb) on the zeroed super block: the super block is read and its
\* fields are printed; the function returns 0 with the buffer as it is
ext2_superblock(sb, ok) ==
    LET m == Do(Gd(sb), [Bread(Abs(SUPER_BLOCK), "") EXCEPT !.ok = ok])
    IN  IF ok THEN [m EXCEPT !.at = "out"] ELSE [m EXCEPT !.at = "out", !.ret = -EINVAL]

\* ext2_superblock_vfs: if (!es) { if (!(bh = bread(SUPER_BLOCK))) return -EINVAL; }
sv_super(m, fail) ==
    LET ok == NextOk(m, fail)
        m1 == Do(m, [Bread(Abs(SUPER_BLOCK), "") EXCEPT !.ok = ok])
    IN  IF ok THEN m1 ELSE [m1 EXCEPT !.at = "out", !.ret = -EINVAL]

\* for (i = 0; i < bh_count; i++) { s_group_desc[i] = bread(SUPER_BLOCK + i + 1);
\*   if (!s_group_desc[i]) { brelse of those read; brelse(bh); return -EINVAL; } }
RECURSIVE sv_desc(_, _, _)
sv_desc(m, i, fail) ==
    IF ~Running(m) \/ i >= bh_count(m.sb) THEN m
    ELSE LET ok == NextOk(m, fail)
             m1 == Do(m, [Bread(Abs(SUPER_BLOCK + i + 1), "") EXCEPT !.ok = ok])
         IN  IF ok THEN sv_desc(m1, i + 1, fail)
             ELSE [m1 EXCEPT !.io = @ \o [j \in 1 .. i |-> Brelse(Abs(SUPER_BLOCK + j))]
                                      \o <<Brelse(Abs(SUPER_BLOCK))>>,
                             !.at = "out", !.ret = -EINVAL]

\* the caches are emptied; if (bh) brelse(bh); return 0;
sv_finish(m) ==
    IF ~Running(m) THEN m
    ELSE [m EXCEPT !.sb.s_inode_bitmap_number = [i \in CacheIdx |-> 0],
                   !.sb.s_inode_bitmap = [i \in CacheIdx |-> NULL],
                   !.sb.s_block_bitmap_number = [i \in CacheIdx |-> 0],
                   !.sb.s_block_bitmap = [i \in CacheIdx |-> NULL],
                   !.io = Append(@, Brelse(Abs(SUPER_BLOCK))),
                   !.at = "out"]

\* ext2_superblock_vfs(raw_sb) on the zeroed super block; the buffers of the
\* descriptor blocks stay in s_group_desc
ext2_superblock_vfs(sb, fail) == sv_finish(sv_desc(sv_super(Gd(sb), fail), 0, fail))

\* sys_vfs_ext2fs built with the super block demonstration
Ext2Superblock(ok) ==
    /\ panicked = ""
    /\ ext2_sb.config = "superblock"
    /\ ext2_call.fn = ""
    /\ LET m == ext2_superblock(ext2_sb, ok)
       IN  ext2_call' = [NoCall EXCEPT !.fn = "ext2_superblock", !.ret = m.ret, !.io = m.io]
    /\ UNCHANGED <<inode_table, last_inode, super_block, disk, task, panicked, hung, refs,
                   pages, badfree, ops, pair, ev, ext2_sb>>

\* sys_vfs_ext2fs built with the VFS super block demonstration
\*   fail: the bread that returns no buffer (0: none)
Ext2SuperblockVfs(fail) ==
    /\ panicked = ""
    /\ ext2_sb.config = "superblock"
    /\ ext2_call.fn = ""
    /\ fail <= bh_count(ext2_sb) + 1
    /\ LET m == ext2_superblock_vfs(ext2_sb, fail)
       IN  /\ ext2_sb' = m.sb
           /\ ext2_call' = [NoCall EXCEPT !.fn = "ext2_superblock_vfs", !.ret = m.ret,
                                          !.io = m.io]
    /\ UNCHANGED <<inode_table, last_inode, super_block, disk, task, panicked, hung, refs,
                   pages, badfree, ops, pair, ev>>

\* ------------------------------------------------------------- ext2: ext2_counts_free
\* nibblemap[]: the zero bits of a 4-bit value
nibblemap == <<4, 3, 3, 2, 3, 2, 2, 1, 3, 2, 2, 1, 2, 1, 1, 0>>

\* map->b_data[i], a char, as the int the expression works on: the byte's value, or
\* with a signed char the value sign-extended
CharValue(byte, char_signed) == IF char_signed /\ byte >= 128 THEN byte - 256 ELSE byte

\* v & 0xf and v >> 4 on a two's complement int
AndF(v) == v % 16
Shr4(v) == v \div 16

\* a sum that counts the low nibble of every byte twice
RECURSIVE C23_counts_free_sum_low(_, _, _)
C23_counts_free_sum_low(data, numchars, char_signed) ==
    IF numchars = 0 THEN 0
    ELSE LET v == CharValue(data[numchars], char_signed)
         IN  C23_counts_free_sum_low(data, numchars - 1, char_signed)
             + nibblemap[AndF(v) + 1] + nibblemap[AndF(v) + 1]

\* for (i = 0; i < numchars; i++)
\*     sum += nibblemap[b_data[i] & 0xf] + nibblemap[(b_data[i] >> 4) & 0xf];
RECURSIVE counts_free_sum(_, _, _)
counts_free_sum(data, numchars, char_signed) ==
    IF numchars = 0 THEN 0
    ELSE LET v == CharValue(data[numchars], char_signed)
         IN  counts_free_sum(data, numchars - 1, char_signed)
             + nibblemap[AndF(v) + 1] + nibblemap[AndF(Shr4(v)) + 1]

\* ext2_counts_free(map, numchars); map.null: map is NULL, map.data: map->b_data
ext2_counts_free(map, numchars, char_signed) ==
    IF map.null THEN 0 ELSE counts_free_sum(map.data, numchars, char_signed)

\* a call of ext2_counts_free with the arguments drawn at the start
CountsFree ==
    /\ panicked = ""
    /\ ext2_sb.config = "counts_free"
    /\ ext2_call.fn = ""
    /\ ext2_call' = [ext2_call EXCEPT
                        !.fn = "ext2_counts_free",
                        !.res = ext2_counts_free(ext2_call.arg.map,
                                                 ext2_call.arg.numchars,
                                                 ext2_call.arg.char_signed)]
    /\ UNCHANGED <<inode_table, last_inode, super_block, disk, task, panicked, hung,
                   refs, pages, badfree, ops, pair, ev, ext2_sb>>

\* ------------------------------------------------------------- ext2: ext2_check_descriptors
\* a range that takes in the block after the group
C24_NotInGroup_upto(n, block, blocks_per_group) == n < block \/ n > block + blocks_per_group

\* a block number is outside [block, block + EXT2_BLOCKS_PER_GROUP)
NotInGroup(n, block, blocks_per_group) == n < block \/ n >= block + blocks_per_group

\* The loop of ext2_check_descriptors from group i on.  gdp points at entry gdp.off
\* of descriptor block gdp.blk; msgs are the messages printed so far, each with the
\* group the loop was at.
RECURSIVE check_descriptors_from(_, _, _, _, _, _)
check_descriptors_from(sb, i, desc_block, gdp, block, msgs) ==
    IF i >= sb.s_groups_count THEN [ret |-> 1, msgs |-> msgs]
    ELSE LET first == (i % EXT2_DESC_PER_BLOCK) = 0
             p     == IF first THEN [blk |-> desc_block, off |-> 0] ELSE gdp
             d     == sb.s_group_desc[p.blk + 1][p.off + 1]
             bad   == IF NotInGroup(d.bg_block_bitmap, block, sb.s_blocks_per_group)
                      THEN "EXT2-fs: block bitmap for group no in group"
                      ELSE IF NotInGroup(d.bg_inode_bitmap, block, sb.s_blocks_per_group)
                      THEN "EXT2-fs: inode bitmap for group no in group"
                      ELSE IF NotInGroup(d.bg_inode_table, block, sb.s_blocks_per_group)
                      THEN "EXT2-fs: inode table for group no in group"
                      ELSE ""
         IN  IF bad # ""
             THEN [ret |-> 0, msgs |-> Append(msgs, [group |-> i, msg |-> bad])]
             ELSE check_descriptors_from(sb, i + 1,
                                         IF first THEN desc_block + 1 ELSE desc_block,
                                         [p EXCEPT !.off = @ + 1],
                                         block + sb.s_blocks_per_group, msgs)

\* ext2_check_descriptors(sb): sb.s_group_desc are the descriptor blocks
ext2_check_descriptors(sb) ==
    check_descriptors_from(sb, 0, 0, [blk |-> 0, off |-> 0], sb.s_first_data_block, <<>>)

\* a call of ext2_check_descriptors with the descriptors drawn at the start
CheckDescriptors ==
    /\ panicked = ""
    /\ ext2_sb.config = "check_descriptors"
    /\ ext2_call.fn = ""
    /\ ext2_call' = [ext2_call EXCEPT !.fn = "ext2_check_descriptors",
                                      !.res = ext2_check_descriptors(ext2_call.arg)]
    /\ UNCHANGED <<inode_table, last_inode, super_block, disk, task, panicked, hung,
                   refs, pages, badfree, ops, pair, ev, ext2_sb>>

\* ------------------------------------------------------------- initial states
NoSuper == [s_dev |-> 0, s_imount |-> NULL]

\* a slot that holds inode (dev, nr) as read from disk, with `count` references
Cached(dev, nr, count, mount) ==
    WithDPart([ZeroInode EXCEPT !.i_dev = dev, !.i_num = nr, !.i_count = count,
                                !.i_mount = mount],
              DiskInit[<<dev, nr>>])

\* a pipe inode as get_pipe_inode makes it: two holders, a page in i_size
PipeInode == [ZeroInode EXCEPT !.i_count = 2, !.i_pipe = 1, !.i_size = 1]

EmptyTable == [s \in Slots |-> ZeroInode]
NoRefs     == [s \in Slots |-> 0]

\* devices 1 and 2 have a super block, device 3 has none
PlainSupers ==
    [i \in Supers |-> IF i < 2 THEN [s_dev |-> i + 1, s_imount |-> NULL] ELSE NoSuper]

\* nothing cached, nothing mounted
InitPlain ==
    /\ inode_table = EmptyTable
    /\ super_block = PlainSupers
    /\ refs = NoRefs
    /\ pages = {}

\* device 2 is mounted on inode (1, 1), which the mount keeps in slot 0
InitMount ==
    /\ inode_table = [EmptyTable EXCEPT ![0] = Cached(1, 1, 1, 1)]
    /\ super_block = [PlainSupers EXCEPT ![1].s_imount = 0]
    /\ refs = NoRefs
    /\ pages = {}

\* device 2 is mounted on (1, 1) and device 3 on the root of device 2
InitChain ==
    /\ inode_table = [EmptyTable EXCEPT ![0] = Cached(1, 1, 1, 1),
                                        ![1] = Cached(2, ROOT_INO, 1, 1)]
    /\ super_block = [PlainSupers EXCEPT ![1].s_imount = 0,
                                         ![2] = [s_dev |-> 3, s_imount |-> 1]]
    /\ refs = NoRefs
    /\ pages = {}

\* a held inode is marked as a mount point and no super block is mounted on it
InitNoSb ==
    /\ inode_table = [EmptyTable EXCEPT ![0] = Cached(1, 1, 1, 1)]
    /\ super_block = PlainSupers
    /\ refs = [NoRefs EXCEPT ![0] = 1]
    /\ pages = {}

\* inode (2, 2) is held and clean in slot 0; inode (1, 2) is cached in slot 1,
\* unreferenced, with a change that is not on disk yet
InitBusy ==
    /\ inode_table = [EmptyTable EXCEPT
                         ![0] = Cached(2, 2, 1, 0),
                         ![1] = [Cached(1, 2, 0, 0) EXCEPT !.i_size = 1, !.i_dirt = 1]]
    /\ super_block = PlainSupers
    /\ refs = [NoRefs EXCEPT ![0] = 1]
    /\ pages = {}

\* a pipe is open: both ends hold the pipe inode of slot 0
InitPipe ==
    /\ inode_table = [EmptyTable EXCEPT ![0] = PipeInode]
    /\ super_block = PlainSupers
    /\ refs = [NoRefs EXCEPT ![0] = 2]
    /\ pages = {1}

Init ==
    /\ \/ InitPlain
       \/ InitMount
       \/ InitChain
       \/ InitNoSb
       \/ InitBusy
       \/ InitPipe
    /\ last_inode = 0
    /\ disk = DiskInit
    /\ task = [t \in Tasks |-> IdleTask]
    /\ panicked = ""
    /\ hung = FALSE
    /\ badfree = FALSE
    /\ pair = NoPair
    /\ ops = MaxOps
    /\ ev = <<>>
    /\ ext2_sb = NoExt2
    /\ ext2_call = NoCall

\* ------------------------------------------------------------- next-state
Next ==
    \/ \E t \in Tasks : \E dev \in Devs \cup {0} : \E nr \in Nums : sys_iget(t, dev, nr)
    \/ \E t \in Tasks : \E h \in Slots : sys_iput(t, h)
    \/ \E t \in Tasks : \E h \in Slots \cup {NULL} : sys_iput_stale(t, h)
    \/ \E t \in Tasks : sys_sync_inodes(t)
    \/ \E t \in Tasks : \E dev \in Devs : sys_invalidate_inodes(t, dev)
    \/ \E s \in Slots : touch(s)
    \/ \E s \in Slots : unlink(s)
    \/ \E t \in Tasks : \E ok \in BOOLEAN : resume(t, ok)

Spec == Init /\ [][Next]_vars

\* Longer histories: one more call, from the configurations in which nothing is
\* cached but the mount point.
InitLong ==
    /\ \/ InitPlain
       \/ InitMount
    /\ last_inode = 0
    /\ disk = DiskInit
    /\ task = [t \in Tasks |-> IdleTask]
    /\ panicked = ""
    /\ hung = FALSE
    /\ badfree = FALSE
    /\ pair = NoPair
    /\ ops = MaxOps + 1
    /\ ev = <<>>
    /\ ext2_sb = NoExt2
    /\ ext2_call = NoCall

SpecLong == InitLong /\ [][Next]_vars

\* Fair scheduling: a task that can run (it was woken by unlock_inode and the lock
\* is free, or its block I/O is done) is run by schedule() in the end.
Fairness == \A t \in Tasks : WF_vars(resume(t, TRUE))

SpecFair == Init /\ [][Next]_vars /\ Fairness

\* A full table: three inodes were opened one after the other and are held, as
\* three calls of iget from the empty table leave them (slots 1, 2 and 0 taken in
\* this order, the cursor back at 0).
FullTable ==
    [EmptyTable EXCEPT ![1] = Cached(1, 1, 1, 0),
                       ![2] = Cached(2, 1, 1, 0),
                       ![0] = Cached(2, 2, 1, 0)]

InitFull ==
    /\ inode_table = FullTable
    /\ super_block = PlainSupers
    /\ refs = [s \in Slots |-> 1]
    /\ pages = {}
    /\ last_inode = 0
    /\ disk = DiskInit
    /\ task = [t \in Tasks |-> IdleTask]
    /\ panicked = ""
    /\ hung = FALSE
    /\ badfree = FALSE
    /\ pair = NoPair
    /\ ops = MaxOps + 1
    /\ ev = <<>>
    /\ ext2_sb = NoExt2
    /\ ext2_call = NoCall

\* the calls made on a full table, under fair scheduling
SpecFull == InitFull /\ [][Next]_vars /\ Fairness

\* ------------------------------------------------------------- ext2: specification
\* the values of addr_per_block: a small one, and 256 (1 KiB blocks)
AddrPerBlock == {SmallAddrPerBlock, 256}

\* The logical blocks asked for: with the small addr_per_block every index up to the
\* end of the triply-indirect range and one more, with 256 those around the limits of
\* the ranges.
BlockIndexes(A) ==
    LET first3 == EXT2_NDIR_BLOCKS + A + A * A
    IN  IF A = SmallAddrPerBlock
        THEN 0 .. (first3 + A * A * A)
        ELSE {0, EXT2_NDIR_BLOCKS - 1, EXT2_NDIR_BLOCKS,
              EXT2_NDIR_BLOCKS + A - 1, EXT2_NDIR_BLOCKS + A,
              first3 - 1, first3, first3 + 1, first3 + A * A * A - 1}

\* ext2_group_descriptor reads at most the super block, two descriptor blocks, the
\* inode table, and two bitmaps of every group twice
GdBreads == 4 * MaxGroups + 4

\* sys_vfs_ext2fs built with ext2_inode: a mounted file system of MaxGroups groups
InitExt2Inode ==
    \E ipg \in 2 .. MaxInodesPerGroup, ipb \in 2 .. MaxInodesPerBlock,
       apb \in AddrPerBlock :
        ext2_sb = Ext2Sb("inode", MaxGroups, ipg, ipb, apb)

\* sys_vfs_ext2fs built with the group descriptor checks: the bitmap caches are
\* empty (as ext2_superblock_vfs leaves them) or hold the bitmap of every group (as
\* ext2_group_descriptor leaves them)
InitExt2Bitmap ==
    \E groups \in 1 .. MaxGroups, populated \in BOOLEAN :
        /\ populated => groups <= EXT2_MAX_GROUP_LOADED
        /\ LET sb == Ext2Sb("group_desc", groups, MaxInodesPerGroup, MaxInodesPerBlock,
                            SmallAddrPerBlock)
           IN  ext2_sb = IF populated THEN Populated(sb) ELSE sb

\* sys_vfs_ext2fs built with the super block demonstrations: the zeroed super block
\* of a device with 1 to MaxGroups groups
InitExt2Super ==
    \E groups \in 1 .. MaxGroups :
        ext2_sb = Ext2Sb("superblock", groups, MaxInodesPerGroup, MaxInodesPerBlock,
                         SmallAddrPerBlock)

\* bytes with none, the low half, the top bit, the high half and all bits set
SampleBytes == {0, 15, 128, 240, 255}

\* ext2_counts_free on its own: no bitmap, one byte of any value, or MaxBytes bytes
\* of the sample values, counted up to any length, built with char signed or not
InitCountsFree ==
    /\ ext2_sb = [NoExt2 EXCEPT !.config = "counts_free"]
    /\ \E data \in {<<b>> : b \in 0 .. 255} \cup [1 .. MaxBytes -> SampleBytes],
          null, char_signed \in BOOLEAN :
          \E numchars \in 0 .. Len(data) :
              ext2_call = [NoCall EXCEPT
                              !.arg = [map |-> [null |-> null,
                                                data |-> IF null THEN <<>> ELSE data],
                                       numchars |-> numchars,
                                       char_signed |-> char_signed]]

\* the descriptor of group g of a file system that mkfs laid out
GoodDesc(first, blocks_per_group, g) ==
    LET lo == first + g * blocks_per_group
    IN  [bg_block_bitmap |-> lo, bg_inode_bitmap |-> lo + 1, bg_inode_table |-> lo + 2]

\* a field of a descriptor set to the block before its group, to the last block of
\* the group, or to the block after it
DescChanges(groups) ==
    [group : 0 .. (groups - 1),
     field : {"bg_block_bitmap", "bg_inode_bitmap", "bg_inode_table"},
     to : {"before", "last", "after"}]

NoChange == [group |-> -1, field |-> "", to |-> ""]

\* ext2_check_descriptors on its own: the descriptors of 1 to MaxGroups groups, in
\* blocks of EXT2_DESC_PER_BLOCK, with at most two fields changed
InitCheckDescriptors ==
    /\ ext2_sb = [NoExt2 EXCEPT !.config = "check_descriptors"]
    /\ \E groups \in 1 .. MaxGroups, first \in {0, 1} :
       \E c1, c2 \in DescChanges(groups) \cup {NoChange} :
          LET changes == {c1, c2} \ {NoChange}
              bpg == 8192
              lo(g) == first + g * bpg
              val(c) == IF c.to = "before" THEN lo(c.group) - 1
                        ELSE IF c.to = "last" THEN lo(c.group) + bpg - 1
                        ELSE lo(c.group) + bpg
              desc(g) ==
                  [f \in {"bg_block_bitmap", "bg_inode_bitmap", "bg_inode_table"} |->
                      IF \E c \in changes : c.group = g /\ c.field = f
                      THEN val(CHOOSE c \in changes : c.group = g /\ c.field = f)
                      ELSE GoodDesc(first, bpg, g)[f]]
          IN  /\ c1.group < c2.group \/ c2 = NoChange
              /\ \A c \in changes : val(c) >= 0
              /\ ext2_call = [NoCall EXCEPT
                     !.arg = [s_groups_count |-> groups,
                              s_first_data_block |-> first,
                              s_blocks_per_group |-> bpg,
                              s_group_desc |->
                                  [k \in 1 .. ((groups + EXT2_DESC_PER_BLOCK - 1)
                                                  \div EXT2_DESC_PER_BLOCK) |->
                                      [j \in 1 .. EXT2_DESC_PER_BLOCK |->
                                          desc((k - 1) * EXT2_DESC_PER_BLOCK + j - 1)]]]]

InitExt2 ==
    /\ InitPlain
    /\ last_inode = 0
    /\ disk = DiskInit
    /\ task = [t \in Tasks |-> IdleTask]
    /\ panicked = ""
    /\ hung = FALSE
    /\ badfree = FALSE
    /\ pair = NoPair
    /\ ops = MaxOps
    /\ ev = <<>>
    /\ \/ ext2_call = NoCall /\ InitExt2Inode
       \/ ext2_call = NoCall /\ InitExt2Bitmap
       \/ ext2_call = NoCall /\ InitExt2Super
       \/ InitCountsFree
       \/ InitCheckDescriptors

NextExt2 ==
    \/ /\ ext2_call.fn = ""
       /\ ext2_sb.config = "inode"
       /\ \E ino \in 1 .. (MaxGroups * MaxInodesPerGroup + 1) :
          \E index \in BlockIndexes(ext2_sb.s_addr_per_block) :
          \E fail \in 0 .. MaxBreads : \E stale \in 0 .. 2 :
          \E differs \in 0 .. Len(FieldPanics) : \E trap \in BOOLEAN :
              Ext2Inode(ino, index, fail, stale, differs, trap)
    \/ \E g \in 0 .. MaxGroups : \E ok \in BOOLEAN : LoadBlockBitmap(g, ok)
    \/ \E g \in 0 .. MaxGroups : \E ok \in BOOLEAN : LoadInodeBitmap(g, ok)
    \/ \E fail \in 0 .. MaxGroups : \E trap \in BOOLEAN : CheckBlockBitmap(fail, trap)
    \/ \E fail \in 0 .. MaxGroups : CheckInodeBitmap(fail)
    \/ \E fail \in 0 .. GdBreads : \E trap \in BOOLEAN : Ext2GroupDescriptor(fail, trap)
    \/ CountsFree
    \/ CheckDescriptors
    \/ \E ok \in BOOLEAN : Ext2Superblock(ok)
    \/ \E fail \in 0 .. (MaxGroups + 1) : Ext2SuperblockVfs(fail)

SpecExt2 == InitExt2 /\ [][NextExt2]_vars

\* ------------------------------------------------------------- inode records in the inode-table blocks
\* a / b and a % b of C: the quotient is truncated towards zero
TruncDiv(a, b) == IF a >= 0 THEN a \div b ELSE -((-a) \div b)
TruncMod(a, b) == a - b * TruncDiv(a, b)

\* inode numbers of the device: two blocks of the inode table
InodeNums == 1 .. (2 * INODES_PER_BLOCK)

\* the super block of device 1 with the sizes of its bitmaps; the other entries are free
RecordSupers(imap, zmap) ==
    [i \in Supers |->
        IF i = 0
        THEN [s_dev |-> 1, s_imount |-> NULL, s_imap_blocks |-> imap, s_zmap_blocks |-> zmap]
        ELSE [s_dev |-> 0, s_imount |-> NULL, s_imap_blocks |-> 0, s_zmap_blocks |-> 0]]

\* no record: what memset leaves in the in-core inode
NoRecord == DPart(ZeroInode)

\* the blocks of the device as mkfs left them: boot block, super block, bitmaps,
\* then the inode table with the record of inode n in place, then a data block
RecordDisk(imap, zmap) ==
    LET first == 2 + imap + zmap
    IN  [b \in 0 .. (first + 2) |->
            [k \in 0 .. (INODES_PER_BLOCK - 1) |->
                IF b >= first /\ b < first + 2
                THEN DInode("reg", 1, (b - first) * INODES_PER_BLOCK + k + 1)
                ELSE NoRecord]]

\* what the holder of an inode makes of its record
ChangedRecords == {DInode("blk", 1, 0), DInode("reg", 2, 0)}

\* a write that takes the slot of the next inode
C28_write_inode_place_next(sb, num) ==
    [block |-> 2 + sb.s_imap_blocks + sb.s_zmap_blocks + TruncDiv(num - 1, INODES_PER_BLOCK),
     index |-> TruncMod(num, INODES_PER_BLOCK)]

\* write_inode: block = 2 + sb->s_imap_blocks + sb->s_zmap_blocks +
\*     (inode->i_num - 1) / INODES_PER_BLOCK;  [(inode->i_num - 1) % INODES_PER_BLOCK]
write_inode_place(sb, num) ==
    [block |-> 2 + sb.s_imap_blocks + sb.s_zmap_blocks + TruncDiv(num - 1, INODES_PER_BLOCK),
     index |-> TruncMod(num - 1, INODES_PER_BLOCK)]

\* read_inode: the same two expressions, written out again
read_inode_place(sb, num) ==
    [block |-> 2 + sb.s_imap_blocks + sb.s_zmap_blocks + TruncDiv(num - 1, INODES_PER_BLOCK),
     index |-> TruncMod(num - 1, INODES_PER_BLOCK)]

\* write_inode(inode) as one call of a task that nothing interrupts: the result on
\* the inode, the blocks, the buffer operations and the panic
write_inode(ino, blocks, ok) ==
    IF ino.i_dirt = 0 \/ ino.i_dev = 0
    THEN [inode |-> unlock_inode(ino), disk |-> blocks, io |-> <<>>, panic |-> ""]
    ELSE IF get_super(ino.i_dev) = NULL
    THEN [inode |-> [ino EXCEPT !.i_lock = 1], disk |-> blocks, io |-> <<>>,
          panic |-> "trying to write inode without device"]
    ELSE LET at == write_inode_place(super_block[get_super(ino.i_dev)], ino.i_num)
         IN  IF ~ok
             THEN [inode |-> [ino EXCEPT !.i_lock = 1], disk |-> blocks,
                   io |-> <<[Bread(Abs(at.block), "unable to read i-node block")
                                EXCEPT !.ok = FALSE]>>,
                   panic |-> "unable to read i-node block"]
             ELSE [inode |-> wi_written(ino),
                   disk |-> [blocks EXCEPT ![at.block][at.index] = DPart(ino)],
                   io |-> <<Bread(Abs(at.block), "unable to read i-node block"),
                            Brelse(Abs(at.block))>>,
                   panic |-> ""]

\* read_inode(inode) as one call of a task that nothing interrupts
read_inode(ino, blocks, ok) ==
    IF get_super(ino.i_dev) = NULL
    THEN [inode |-> [ino EXCEPT !.i_lock = 1], io |-> <<>>,
          panic |-> "tring to read inode without dev"]
    ELSE LET at == read_inode_place(super_block[get_super(ino.i_dev)], ino.i_num)
         IN  IF ~ok
             THEN [inode |-> [ino EXCEPT !.i_lock = 1],
                   io |-> <<[Bread(Abs(at.block), "unable to read i_node block")
                                EXCEPT !.ok = FALSE]>>,
                   panic |-> "unable to read i_node block"]
             ELSE [inode |-> unlock_inode(WithDPart(ino, blocks[at.block][at.index])),
                   io |-> <<Bread(Abs(at.block), "unable to read i_node block"),
                            Brelse(Abs(at.block))>>,
                   panic |-> ""]

\* write_inode(inode) on the inode in slot s (called by iput and sync_inodes)
WriteInodeRecord(s, ok) ==
    /\ panicked = ""
    /\ ops > 0
    /\ inode_table[s].i_count > 0
    /\ LET ino == inode_table[s]
           r   == write_inode(ino, disk, ok)
       IN  /\ inode_table' = [inode_table EXCEPT ![s] = r.inode]
           /\ disk' = r.disk
           /\ panicked' = r.panic
           /\ ext2_call' = [NoCall EXCEPT !.fn = "write_inode", !.ino = ino.i_num, !.io = r.io]
           /\ ev' = IF r.panic = "" /\ r.io # <<>>
                    THEN [ev EXCEPT !.written[ino.i_num] = DPart(ino),
                                    !.read[ino.i_num] = NoRecord]
                    ELSE ev
    /\ ops' = ops - 1
    /\ UNCHANGED <<last_inode, super_block, task, hung, refs, pages, badfree, pair, ext2_sb>>

\* iget(1, nr) that finds no slot with the inode: the slot s that get_empty_inode
\* cleared is given the device and the number, and read_inode fills it
ReadInodeRecord(s, nr, ok) ==
    /\ panicked = ""
    /\ ops > 0
    /\ inode_table[s].i_count = 0 /\ inode_table[s].i_dirt = 0
    /\ \A u \in Slots \ {s} : ~(inode_table[u].i_dev = 1 /\ inode_table[u].i_num = nr)
    /\ LET ino == [ZeroInode EXCEPT !.i_count = 1, !.i_dev = 1, !.i_num = nr]
           r   == read_inode(ino, disk, ok)
       IN  /\ inode_table' = [inode_table EXCEPT ![s] = r.inode]
           /\ panicked' = r.panic
           /\ ext2_call' = [NoCall EXCEPT !.fn = "read_inode", !.ino = nr, !.io = r.io]
           /\ ev' = IF r.panic = "" THEN [ev EXCEPT !.read[nr] = DPart(r.inode)] ELSE ev
    /\ ops' = ops - 1
    /\ UNCHANGED <<last_inode, super_block, disk, task, hung, refs, pages, badfree, pair,
                   ext2_sb>>

\* the holder of the inode in slot s changes its record and marks it dirty
ChangeInodeRecord(s, d) ==
    /\ panicked = ""
    /\ ops > 0
    /\ inode_table[s].i_count > 0
    /\ DPart(inode_table[s]) # d
    /\ inode_table' = [inode_table EXCEPT ![s] = [WithDPart(@, d) EXCEPT !.i_dirt = 1]]
    /\ ext2_call' = NoCall
    /\ ops' = ops - 1
    /\ UNCHANGED <<last_inode, super_block, disk, task, panicked, hung, refs, pages,
                   badfree, pair, ev, ext2_sb>>

\* iput of the last reference to the clean inode in slot s: inode->i_count--
ReleaseInodeRecord(s) ==
    /\ panicked = ""
    /\ ops > 0
    /\ inode_table[s].i_count = 1 /\ inode_table[s].i_dirt = 0
    /\ inode_table[s].i_nlinks # 0
    /\ inode_table' = [inode_table EXCEPT ![s].i_count = 0]
    /\ ext2_call' = NoCall
    /\ ops' = ops - 1
    /\ UNCHANGED <<last_inode, super_block, disk, task, panicked, hung, refs, pages,
                   badfree, pair, ev, ext2_sb>>

\* device 1 with its inode table as mkfs left it; slot 0 holds one of its inodes,
\* as read or changed since; nothing was written or read yet
InitRecord ==
    /\ \E sizes \in {<<1, 1>>, <<2, 3>>} :
       LET imap == sizes[1]
           zmap == sizes[2]
       IN
          /\ super_block = RecordSupers(imap, zmap)
          /\ disk = RecordDisk(imap, zmap)
          /\ \E nr \in InodeNums, d \in ChangedRecords \cup {NoRecord} :
                LET at  == read_inode_place(super_block[0], nr)
                    ino == [ZeroInode EXCEPT !.i_count = 1, !.i_dev = 1, !.i_num = nr]
                IN  inode_table =
                        [EmptyTable EXCEPT ![0] =
                            IF d = NoRecord
                            THEN WithDPart(ino, disk[at.block][at.index])
                            ELSE [WithDPart(ino, d) EXCEPT !.i_dirt = 1]]
    /\ ev = [written |-> [n \in InodeNums |-> NoRecord],
             read |-> [n \in InodeNums |-> NoRecord]]
    /\ last_inode = 0
    /\ task = [t \in Tasks |-> IdleTask]
    /\ panicked = ""
    /\ hung = FALSE
    /\ refs = NoRefs
    /\ pages = {}
    /\ badfree = FALSE
    /\ ops = MaxOps
    /\ pair = NoPair
    /\ ext2_sb = NoExt2
    /\ ext2_call = NoCall

\* the slots the calls work on: the one that holds the inode and a free one
RecordSlots == {0, 1}

NextRecord ==
    \/ \E s \in RecordSlots, ok \in BOOLEAN : WriteInodeRecord(s, ok)
    \/ \E s \in RecordSlots, nr \in InodeNums, ok \in BOOLEAN : ReadInodeRecord(s, nr, ok)
    \/ \E s \in RecordSlots, d \in ChangedRecords : ChangeInodeRecord(s, d)
    \/ \E s \in RecordSlots : ReleaseInodeRecord(s)

SpecRecord == InitRecord /\ [][NextRecord]_vars

\* ------------------------------------------------------------- ext2: the bits of the block bitmap
\* test_bit(nr, addr): bit nr of the bitmap at addr, bit nr % 8 of byte nr / 8
test_bit(nr, data) == (data[nr \div 8 + 1] \div (2 ^ (nr % 8))) % 2 = 1

\* block_in_use(block, sb, map); a.es is the super block as read through
\* sb->u.ext2_sb.s_es
block_in_use(block, a, data) ==
    test_bit((block - a.es.s_first_data_block) % a.s_blocks_per_group, data)

\* a printk of the check: the message, the number it prints for %d, and (history)
\* the group whose bitmap was examined (NULL: none)
Report(msg, n, group) == [msg |-> msg, n |-> n, group |-> group]

\* for (j = 0; j < s_itb_per_group; j++)
\*     if (!block_in_use(gdp->bg_inode_table + j, sb, bh->b_data)) printk(...);
itb_reports(a, i, data) ==
    SelectSeq([k \in 1 .. a.s_itb_per_group |->
                  Report("Block %d of the inode table is marked free", k - 1, i)],
              LAMBDA r : ~block_in_use(a.gdp[i + 1].bg_inode_table + r.n, a, data))

\* the body of the loop of ext2_check_block_bitmap for group i, bitmap read: the
\* messages printed, and x, the free blocks counted
check_block_group(a, i) ==
    LET gdp  == a.gdp[i + 1]
        data == a.bitmap[i + 1]
        desc_blocks == (a.s_groups_count + EXT2_DESC_PER_BLOCK - 1) \div EXT2_DESC_PER_BLOCK
        x    == ext2_counts_free([null |-> FALSE, data |-> data], a.s_blocksize,
                                 a.char_signed)
        \* j after the loop over the inode table
        j    == a.s_itb_per_group
    IN  [x |-> x,
         out |->
            (IF ~test_bit(0, data)
             THEN <<Report("Superblock in group %d is marked free", i, i)>> ELSE <<>>)
            \o SelectSeq([k \in 1 .. desc_blocks |->
                             Report("Descriptor block %d in group is marked free", k - 1, i)],
                         LAMBDA r : ~test_bit(r.n + 1, data))
            \o (IF ~block_in_use(gdp.bg_block_bitmap, a, data)
                THEN <<Report("Block bitmap for group %d is marked free", i, i)>> ELSE <<>>)
            \o (IF ~block_in_use(gdp.bg_inode_bitmap, a, data)
                THEN <<Report("Inode bitmap for group %d is marked free", i, i)>> ELSE <<>>)
            \o itb_reports(a, i, data)
            \o (IF gdp.bg_free_blocks_count # x
                THEN <<Report("Wrong free blocks count for group %d", j, i)>> ELSE <<>>)]

\* for (i = 0; i < s_groups_count; i++) { ...; bitmap_count += x; }
\* if (es->s_free_blocks_count != bitmap_count) printk(...);
RECURSIVE check_block_reports(_, _, _, _)
check_block_reports(a, i, bitmap_count, out) ==
    IF i >= a.s_groups_count
    THEN out \o (IF a.es.s_free_blocks_count # bitmap_count
                 THEN <<Report("Wrong free blocks count in super block", 0, NULL)>>
                 ELSE <<>>)
    ELSE LET r == check_block_group(a, i)
         IN  check_block_reports(a, i + 1, bitmap_count + r.x, out \o r.out)

\* a call of ext2_check_block_bitmap(sb) whose bitmaps are all read: what it prints
CheckBlockBits ==
    /\ panicked = ""
    /\ ext2_sb.config = "check_block_bits"
    /\ ext2_call.fn = ""
    /\ ext2_call' = [ext2_call EXCEPT !.fn = "ext2_check_block_bitmap",
                                      !.res = check_block_reports(ext2_call.arg, 0, 0, <<>>)]
    /\ UNCHANGED <<inode_table, last_inode, super_block, disk, task, panicked, hung,
                   refs, pages, badfree, ops, pair, ev, ext2_sb>>

\* bitmaps of BitmapBytes bytes: in the first byte everything in use, one block
\* free, or everything free; the other bytes all in use or all free
SampleBitmaps ==
    {[k \in 1 .. BitmapBytes |-> IF k = 1 THEN b ELSE c] :
        b \in {255, 0} \cup {255 - 2 ^ n : n \in 0 .. 7}, c \in {255, 0}}

\* the zero bits of a bitmap
ZeroBits(data) == Cardinality({nr \in 0 .. (8 * Len(data) - 1) : ~test_bit(nr, data)})

\* The file system that the check is given: groups of 8 * BitmapBytes blocks laid
\* out as super block, descriptor block, block bitmap, inode bitmap and ItbPerGroup
\* blocks of inode table, with any of the sample bitmaps (the second group's all in
\* use or all free) and counts that are right or one too high.
\*   vfs: ext2_superblock_vfs ran before ext2_group_descriptor (both demonstrations
\*        built in): it computed s_itb_per_group, and s_es points into the buffer it
\*        released; without it s_itb_per_group is still 0 from the memset
\*   seen: the super block as read through s_es; it is the one on disk unless the
\*        released buffer was given to another block
InitBlockCheck ==
    /\ ext2_sb = [NoExt2 EXCEPT !.config = "check_block_bits"]
    /\ \E groups \in {1, 2}, first \in {0, 1}, vfs, reused, char_signed \in BOOLEAN :
       \E maps \in [1 .. groups -> SampleBitmaps] :
       \E over \in [1 .. groups -> {0, 1}], sover \in {0, 1} :
       \E seen \in [s_first_data_block : {0, 1}, s_free_blocks_count : {0, 1}] :
          LET bpg  == 8 * BitmapBytes
              sum  == IF groups = 1 THEN ZeroBits(maps[1])
                      ELSE ZeroBits(maps[1]) + ZeroBits(maps[2])
              disk_es == [s_first_data_block |-> first, s_free_blocks_count |-> sum + sover]
          IN  /\ groups = 2 => maps[2][1] \in {255, 0}
              /\ ext2_call = [NoCall EXCEPT
                     !.arg = [s_groups_count |-> groups,
                              s_blocks_per_group |-> bpg,
                              s_blocksize |-> BitmapBytes,
                              s_itb_per_group |-> IF vfs THEN ItbPerGroup ELSE 0,
                              itb |-> ItbPerGroup,
                              disk_es |-> disk_es,
                              es |-> IF vfs /\ reused THEN seen ELSE disk_es,
                              gdp |-> [g \in 1 .. groups |->
                                          [bg_block_bitmap |-> first + (g - 1) * bpg + 2,
                                           bg_inode_bitmap |-> first + (g - 1) * bpg + 3,
                                           bg_inode_table |-> first + (g - 1) * bpg + 4,
                                           bg_free_blocks_count |->
                                               ZeroBits(maps[g]) + over[g]]],
                              bitmap |-> maps,
                              char_signed |-> char_signed]]

\* sys_vfs_ext2fs on a system that did nothing else
InitBlockBits ==
    /\ InitPlain
    /\ last_inode = 0
    /\ disk = DiskInit
    /\ task = [t \in Tasks |-> IdleTask]
    /\ panicked = ""
    /\ hung = FALSE
    /\ badfree = FALSE
    /\ pair = NoPair
    /\ ops = MaxOps
    /\ ev = <<>>
    /\ InitBlockCheck

NextBlockBits == CheckBlockBits

SpecBlockBits == InitBlockBits /\ [][NextBlockBits]_vars

\* ------------------------------------------------------------- ext2: ext2_directory
\* the directory block is bh->b_data[0 .. DirBlockSize - 1]; what lies behind it
\* in memory is not the block's
DirBlockSize == 4 * DirWords

\* the 16-bit and the 32-bit little-endian number at offset o of the bytes b
U16(b, o) == b[o] + 256 * b[o + 1]
U32(b, o) == b[o] + 256 * b[o + 1] + 65536 * b[o + 2] + 16777216 * b[o + 3]

\* the bytes of struct ext2_dir_entry that the scan reads of the entry at de:
\* inode (offset 0, 4 bytes) when it is tested, rec_len (offset 4, 2 bytes)
DeInode(de)  == de .. (de + 3)
DeRecLen(de) == (de + 4) .. (de + 5)

\* while ((char *) de < dlimit) { if (de->inode != 0) printk(" %s", de->name);
\*     de = (struct ext2_dir_entry *)((char *) de + de->rec_len); }
\* An entry whose rec_len is 0 leaves de where it is: the loop never ends.
RECURSIVE dir_scan(_, _, _)
dir_scan(b, de, out) ==
    IF de >= DirBlockSize THEN out
    ELSE LET seen == [out EXCEPT !.entries = Append(@, de),
                                 !.printed = IF U32(b, de) # 0 THEN Append(@, de) ELSE @,
                                 !.reads = @ \cup DeInode(de) \cup DeRecLen(de)]
         IN  IF U16(b, de + 4) = 0 THEN [seen EXCEPT !.hung = TRUE]
             ELSE dir_scan(b, de + U16(b, de + 4), seen)

NoScan == [entries |-> <<>>, printed |-> <<>>, reads |-> {}, hung |-> FALSE]

\* ext2_directory(sb, inode); a: the inode (is_dir, i_data[0]) and the memory
\* that bread returns for its first block (ok: the block was read)
ext2_directory(a, ok) ==
    IF ~a.is_dir
    THEN [ret |-> 0, io |-> <<>>, panic |-> "Inode is not a directory", scan |-> NoScan]
    ELSE IF a.block = 0
    THEN [ret |-> 0, io |-> <<>>, panic |-> "Empty inode number", scan |-> NoScan]
    ELSE IF ~ok
    THEN [ret |-> -EINVAL, io |-> <<[Bread(Abs(a.block), "") EXCEPT !.ok = FALSE]>>,
          panic |-> "", scan |-> NoScan]
    ELSE LET s == dir_scan(a.bytes, 0, NoScan)
         IN  [ret |-> 0,
              io |-> <<Bread(Abs(a.block), "")>>
                     \o (IF s.hung THEN <<>> ELSE <<Brelse(Abs(a.block))>>),
              panic |-> "", scan |-> s]

\* a call of ext2_directory
Ext2Directory(ok) ==
    /\ panicked = "" /\ ~hung
    /\ ext2_sb.config = "directory"
    /\ ext2_call.fn = ""
    /\ LET r == ext2_directory(ext2_call.arg, ok)
       IN  /\ ext2_call' = [ext2_call EXCEPT !.fn = "ext2_directory", !.ret = r.ret,
                                             !.io = r.io, !.res = r.scan]
           /\ panicked' = r.panic
           /\ hung' = r.scan.hung
    /\ UNCHANGED <<inode_table, last_inode, super_block, disk, task, refs, pages,
                   badfree, ops, pair, ev, ext2_sb>>

\* the layouts of a directory block: the rec_len of its entries, each a multiple
\* of 4 that holds the 8 bytes before the name, the last entry reaching to the
\* end of the block
RECURSIVE DirLayouts(_)
DirLayouts(size) ==
    {<<size>>} \cup
    UNION {{<<r>> \o l : l \in DirLayouts(size - r)} :
              r \in {x \in 8 .. (size - 8) : x % 4 = 0}}

\* the offset of entry k of a layout
RECURSIVE DirOffset(_, _)
DirOffset(layout, k) == IF k = 1 THEN 0 ELSE DirOffset(layout, k - 1) + layout[k - 1]

\* The bytes of a block laid out as `layout`, entry k with inode number ino[k]
\* and a name of bytes `fill`; the rec_len field of entry `bad` holds `rec`
\* instead (bad = 0: none); behind the block the memory holds bytes `after`.
DirBytes(layout, ino, fill, bad, rec, after) ==
    [o \in 0 .. (DirBlockSize + 7) |->
        IF o >= DirBlockSize THEN after
        ELSE LET k   == CHOOSE j \in 1 .. Len(layout) :
                            DirOffset(layout, j) <= o /\ o < DirOffset(layout, j) + layout[j]
                 at  == o - DirOffset(layout, k)
                 len == IF k = bad THEN rec ELSE layout[k]
             IN  CASE at = 0 -> ino[k]
                   [] at \in 1 .. 3 -> 0
                   [] at = 4 -> len % 256
                   [] at = 5 -> len \div 256
                   [] at = 6 -> layout[k] - 8
                   [] at = 7 -> 1
                   [] OTHER -> fill]

\* rec_len values that no mkfs writes
BadRecLens == {0, 1, 2, 4, 6, 10, 12, DirBlockSize + 8}

\* sys_vfs_ext2fs built with ext2_directory: the root directory's first block as
\* mkfs and the file system code leave it, or with the rec_len of one entry
\* overwritten; an inode that is no directory or has no first block
InitDirectory ==
    /\ ext2_sb = [NoExt2 EXCEPT !.config = "directory"]
    /\ \E layout \in DirLayouts(DirBlockSize), is_dir \in BOOLEAN, block \in {0, 7} :
       \E ino \in [1 .. Len(layout) -> {0, 2}], fill \in {0, 97}, after \in {0, 8} :
       \E bad \in 0 .. Len(layout), rec \in BadRecLens :
          /\ bad = 0 => rec = 0
          /\ ~is_dir \/ block = 0 => bad = 0 /\ fill = 0 /\ after = 0
                                     /\ layout = <<DirBlockSize>> /\ ino[1] = 2
          /\ ext2_call = [NoCall EXCEPT
                 !.arg = [is_dir |-> is_dir, block |-> block,
                          layout |-> layout, bad |-> bad,
                          bytes |-> DirBytes(layout, ino, fill, bad, rec, after)]]

InitDir ==
    /\ InitPlain
    /\ last_inode = 0
    /\ disk = DiskInit
    /\ task = [t \in Tasks |-> IdleTask]
    /\ panicked = ""
    /\ hung = FALSE
    /\ badfree = FALSE
    /\ pair = NoPair
    /\ ops = MaxOps
    /\ ev = <<>>
    /\ InitDirectory

NextDir == \E ok \in BOOLEAN : Ext2Directory(ok)

\* a stuck scan keeps the CPU; nothing else is scheduled
SpecDir == InitDir /\ [][NextDir]_vars /\ WF_vars(NextDir)

\* ------------------------------------------------------------- sanity
TypeOK ==
    /\ \A s \in Slots : inode_table[s].i_count \in 0 .. (MaxOps + 2)
    /\ ops \in 0 .. (MaxOps + 1)

\* ------------------------------------------------------------- properties
\* The statements of the last run: statement i is the one at ev[i].tk.pc, executed
\* in the state ev[i] and leaving the state ev[i + 1].
Events == 1 .. (Len(ev) - 1)

At(i, label) == ev[i].tk.pc = label

\* no task is inside a call
Quiescent == \A t \in Tasks : task[t].pc = "user"

\* the references a mounted file system holds on slot s (its mount point)
Pins(s) == Cardinality({i \in Supers : super_block[i].s_imount = s})

\* two distinct slots of table tab are in use for the same inode
SameKeyInUse(tab) ==
    \E a, b \in Slots :
        /\ a # b
        /\ tab[a].i_count > 0 /\ tab[b].i_count > 0
        /\ tab[a].i_dev # 0
        /\ tab[a].i_dev = tab[b].i_dev /\ tab[a].i_num = tab[b].i_num

\* C1: in every state of every interleaving of iget, iput, sync_inodes and
\* invalidate_inodes calls (where tasks sleep, and after every statement in
\* between), no two slots with i_count > 0 hold the same (i_dev, i_num) pair
\* with i_dev != 0.
C1_OneSlotPerKey ==
    /\ ~SameKeyInUse(inode_table)
    /\ \A i \in 1 .. Len(ev) : ~SameKeyInUse(ev[i].tab)

\* C1 witness: an inode is held twice through one slot while another inode is
\* held in another slot.
C1_Witness ==
    \E a, b \in Slots :
        /\ a # b /\ refs[a] >= 2 /\ refs[b] >= 1
        /\ inode_table[a].i_dev # 0 /\ inode_table[b].i_dev # 0
        /\ inode_table[a].i_count >= 2 /\ inode_table[b].i_count >= 1

\* C2: when get_empty_inode clears a slot for reuse (memset, i_count = 1) the slot
\* has i_count = 0, i_dirt = 0 and i_lock = 0, and a slot that held an inode holds
\* nothing that is not on disk: its record is the one in the inode's disk slot, so
\* a change that made it dirty has been written by write_inode first.
C2_ClearOnlyCleanSlot ==
    \A i \in Events :
        LET s == ev[i].tk.einode
            o == ev[i].tab[s]
        IN  At(i, "gei_check") /\ ev[i + 1].tab # ev[i].tab
            => /\ o.i_count = 0 /\ o.i_dirt = 0 /\ o.i_lock = 0
               /\ o.i_dev # 0 => ev[i].disk[<<o.i_dev, o.i_num>>] = DPart(o)
               /\ ev[i + 1].tab = [ev[i].tab EXCEPT ![s] = [ZeroInode EXCEPT !.i_count = 1]]

\* C2 witness: get_empty_inode chose a dirty slot, slept in write_inode for it,
\* and clears it in the run that follows the write.
C2_Witness ==
    \E i, j \in Events :
        /\ j < i
        /\ At(j, "wi_copy") /\ At(i, "gei_check")
        /\ ev[j].tk.winode = ev[i].tk.einode
        /\ ev[j].tab[ev[j].tk.winode].i_dirt = 1
        /\ ev[j].tab[ev[j].tk.winode].i_size # ev[j].disk[<<1, 2>>].i_size
        /\ ev[i + 1].tab[ev[i].tk.einode].i_count = 1
        /\ ev[i + 1].tab[ev[i].tk.einode].i_dev = 0

C4_CountBalanced ==
    /\ Alive /\ Quiescent
       => \A s \in Slots : inode_table[s].i_count = refs[s] + Pins(s)
    /\ /\ Alive /\ Quiescent /\ Len(ev) > 0
       /\ ev[1].tk.pc = "iput" /\ ev[1].tk.pinode # NULL /\ ev[1].tk.ret = <<"user">>
       => inode_table[ev[1].tk.pinode].i_count
              = ev[1].tab[ev[1].tk.pinode].i_count - 1
    /\ \A s \in Slots : inode_table[s].i_count >= 0
    /\ \A i \in 1 .. Len(ev) : \A s \in Slots : ev[i].tab[s].i_count >= 0

\* C4 witness: in a configuration where every handle comes from an iget, an iput
\* has returned and the count is one less than when it was called.
C4_Witness ==
    /\ Alive /\ Quiescent /\ Len(ev) > 0
    /\ super_block[1].s_imount = 0
    /\ ev[1].tk.pc = "iput" /\ ev[1].tk.pinode # NULL
    /\ ev[1].tab[ev[1].tk.pinode].i_count = 1 + Pins(ev[1].tk.pinode)
    /\ inode_table[ev[1].tk.pinode].i_count = Pins(ev[1].tk.pinode)

Redirects(tab, s) == tab[s].i_mount # 0 /\ mounted_sb(s) < NR_SUPER

\* C6: iget(dev, nr) for a key that is held in a slot (unlocked, not a mount point
\* that is redirected) does not panic, whatever the rest of the table holds, and
\* when it has returned the slot's i_count is one more than before, no other
\* field of the slot has changed and every other slot that held an inode
\* (i_dev != 0) is as it was: no cached entry was evicted or cleared.
C6_HitReturnsSameSlot ==
    Len(ev) > 0 /\ ev[1].tk.pc = "iget" /\ ev[1].tk.dev # 0
    => LET e == ev[1]
           s == iget_find(e.tab, 0, e.tk.dev, e.tk.nr)
       IN  /\ s < NR_INODE
           /\ e.tab[s].i_count > 0 /\ e.tab[s].i_lock = 0
           /\ ~Redirects(e.tab, s)
           => /\ panicked = ""
              /\ task[e.t].pc = "user"
                 => /\ inode_table[s] = [e.tab[s] EXCEPT !.i_count = e.tab[s].i_count + 1]
                    /\ \A u \in Slots \ {s} :
                           e.tab[u].i_dev # 0 => inode_table[u] = e.tab[u]

\* the key of slot s in table tab is (dev, nr)
HasKey(tab, s, dev, nr) == tab[s].i_dev = dev /\ tab[s].i_num = nr

\* The miss path of iget: the key goes into the reserved slot, read_inode locks
\* the slot, copies the record from the inode's disk slot and unlocks, and iget
\* returns the slot with i_count = 1 and i_lock = 0.  While the load is in
\* flight the slot is locked and no other slot holds the key.
MissLoadsUnderLock ==
    /\ \A i \in Events :
          LET tk == ev[i].tk
          IN  /\ At(i, "iget_scan")
              /\ iget_find(ev[i].tab, tk.inode, tk.dev, tk.nr) = NR_INODE
              /\ tk.empty # NULL
              => /\ ev[i].tab[tk.empty] = [ZeroInode EXCEPT !.i_count = 1]
                 /\ ev[i + 1].tab = [ev[i].tab EXCEPT ![tk.empty].i_dev = tk.dev,
                                                      ![tk.empty].i_num = tk.nr]
                 /\ ev[i + 1].tk.pc = "ri_lock"
                 /\ ev[i + 1].tk.winode = tk.empty /\ ev[i + 1].tk.inode = tk.empty
    /\ \A t \in Tasks :
          task[t].pc = "ri_copy"
          => /\ inode_table[task[t].winode].i_lock = 1
             /\ inode_table[task[t].winode].i_count = 1
             /\ HasKey(inode_table, task[t].winode, task[t].dev, task[t].nr)
             /\ \A s \in Slots \ {task[t].winode} :
                    ~HasKey(inode_table, s, task[t].dev, task[t].nr)
    /\ \A i \in Events :
          LET s == ev[i].tk.winode
              k == <<ev[i].tk.dev, ev[i].tk.nr>>
          IN  At(i, "ri_copy") /\ ev[i + 1].panicked = ""
              => /\ ev[i].tab[s].i_lock = 1
                 /\ ev[i + 1].tab =
                        [ev[i].tab EXCEPT ![s] = [WithDPart(ev[i].tab[s], ev[i].disk[k])
                                                     EXCEPT !.i_lock = 0]]
                 /\ Len(ev) = i + 2
                 /\ task[ev[i].t].pc = "user"
                 /\ HasKey(inode_table, s, k[1], k[2])
                 /\ inode_table[s].i_count = 1 /\ inode_table[s].i_lock = 0
                 /\ DPart(inode_table[s]) = disk[k]
                 /\ refs[s] = 1

\* A task that found the key in a slot goes on only when the slot's lock is
\* free, and then checks the key again: if the slot still holds the key the task
\* takes that slot (i_count + 1, nothing is loaded), otherwise it starts the scan
\* again and changes nothing.
RecheckAfterWait ==
    \A i \in Events :
        LET tk == ev[i].tk
        IN  /\ At(i, "iget_wait")
               => /\ ev[i].tab[tk.inode].i_lock = 0
                  /\ ev[i + 1].tk.pc = "iget_recheck"
                  /\ ev[i + 1].tab = ev[i].tab
            /\ At(i, "iget_recheck") /\ HasKey(ev[i].tab, tk.inode, tk.dev, tk.nr)
               => /\ ev[i + 1].tab = [ev[i].tab EXCEPT ![tk.inode].i_count =
                                                 ev[i].tab[tk.inode].i_count + 1]
                  /\ ev[i + 1].tk.inode = tk.inode
                  /\ ev[i + 1].tk.pc \in {"iput", "iget_ret"}
            /\ At(i, "iget_recheck") /\ ~HasKey(ev[i].tab, tk.inode, tk.dev, tk.nr)
               => /\ ev[i + 1].tab = ev[i].tab
                  /\ ev[i + 1].tk.pc = "iget_scan" /\ ev[i + 1].tk.inode = 0

\* A task that found the key in a slot while read_inode was loading it takes
\* that slot once it has waited for the lock.  (A slot that holds no inode any
\* more when the task goes on, because its device was invalidated or the inode
\* was freed, is left aside.)
WaiterShares ==
    \A i \in Events :
        LET tk == ev[i].tk
        IN  At(i, "iget_recheck") /\ tk.loading /\ ev[i].tab[tk.inode].i_dev # 0
            => /\ HasKey(ev[i].tab, tk.inode, tk.dev, tk.nr)
               /\ ev[i + 1].tab[tk.inode].i_count = ev[i].tab[tk.inode].i_count + 1
               /\ ev[i + 1].tk.inode = tk.inode

\* C7 (as stated): on a miss iget returns a slot with the key and i_count = 1,
\* loaded from the disk slot under i_lock, unlocked at return; a task that looks
\* the key up while the load is in flight waits for the lock and then shares the
\* slot.
C7_WaiterAlwaysShares == MissLoadsUnderLock /\ RecheckAfterWait /\ WaiterShares

\* C7 (amended): on a miss iget returns a slot with the key and i_count = 1,
\* loaded from the disk slot under i_lock, unlocked at return; a task that looks
\* the key up while the load is in flight waits for the lock and then checks the
\* key again: it shares the slot if the slot still holds the key, and restarts
\* the scan if it does not.
C7_MissLoadsWaiterRechecks == MissLoadsUnderLock /\ RecheckAfterWait

\* C7 witness: a task that waited for a load in flight shares the loaded slot,
\* which now has two holders.
C7_Witness ==
    \E i \in Events :
        LET tk == ev[i].tk
        IN  /\ At(i, "iget_recheck") /\ tk.loading
            /\ HasKey(ev[i].tab, tk.inode, tk.dev, tk.nr)
            /\ inode_table[tk.inode].i_count = 2 /\ refs[tk.inode] = 2
            /\ DPart(inode_table[tk.inode]) = disk[<<tk.dev, tk.nr>>]

\* the statements of iput(inode) when the inode stays referenced
IputOfHeld == {"iput", "iput_wait", "iput_body", "iput_repeat"}

\* C8: when the slot found for (dev, nr) has i_mount set and a super_block entry
\* has s_imount pointing to it, iget gives the slot back (its i_count, and the
\* whole table, is as before the lookup) and looks up (that entry's s_dev,
\* ROOT_INO) instead, scanning from the start of the table; the slot iget
\* returns holds the key looked up last and is not itself a mount point with a
\* super block, so nested mounts resolve to the innermost root.
C8_MountRedirect ==
    /\ \A i \in Events :
          LET tk == ev[i].tk
              s  == tk.inode
          IN  /\ At(i, "iget_recheck")
              /\ HasKey(ev[i].tab, s, tk.dev, tk.nr)
              /\ Redirects(ev[i].tab, s)
              => \E j \in Events :
                    /\ j > i /\ At(j, "iget_mount")
                    /\ \A k \in (i + 1) .. (j - 1) : ev[k].tk.pc \in IputOfHeld
                    /\ ev[j + 1].tab = ev[i].tab
                    /\ ev[j + 1].tk.pc = "iget_scan" /\ ev[j + 1].tk.inode = 0
                    /\ ev[j + 1].tk.dev = super_block[mounted_sb(s)].s_dev
                    /\ ev[j + 1].tk.nr = ROOT_INO
                    /\ ev[j + 1].tk.empty = tk.empty
                    /\ super_block[mounted_sb(s)].s_imount = s
    /\ \A i \in Events :
          LET tk == ev[i].tk
          IN  At(i, "iget_ret")
              => /\ HasKey(ev[i].tab, tk.inode, tk.dev, tk.nr)
                 /\ ev[i].tab[tk.inode].i_count > 0
                 /\ ~Redirects(ev[i].tab, tk.inode)
                 /\ ev[i + 1].tab = ev[i].tab
                 /\ ev[i + 1].tk.pc = "user"

\* C8 witness: with device 2 mounted on (1, 1) and device 3 on the root of device
\* 2, one lookup was redirected twice and goes on with (3, ROOT_INO); both mount
\* points have the count they had.
C8_Witness ==
    /\ \E i, j \in Events : i < j /\ At(i, "iget_mount") /\ At(j, "iget_mount")
    /\ ev[1].tk.pc = "iget" /\ ev[1].tk.dev = 1 /\ ev[1].tk.nr = 1
    /\ ev[Len(ev)].tk.dev = 3 /\ ev[Len(ev)].tk.nr = ROOT_INO
    /\ inode_table[0].i_count = 1 /\ inode_table[1].i_count = 1
    /\ super_block[1].s_imount = 0 /\ super_block[2].s_imount = 1

\* C9: iput on a pipe inode decrements i_count; the call that brings it to 0
\* frees the page in i_size, which is allocated until then, and clears i_dirt and
\* i_pipe, any other call changes nothing else; no page is ever freed twice; the
\* call returns without write_inode, and no pipe inode is ever written to disk.
\* iput on a non-pipe inode with i_count > 1 only decrements i_count.
C9_PipeAndSharedRelease ==
    /\ ~badfree
    /\ \A i \in Events :
          LET p == ev[i].tk.pinode
              o == ev[i].tab[p]
          IN  /\ At(i, "iput_body") /\ o.i_count > 0 /\ o.i_pipe # 0
                 => /\ ev[i + 1].tab[p].i_count = o.i_count - 1
                    /\ ev[i + 1].disk = ev[i].disk
                    /\ ev[i + 1].tk.pc = Head(ev[i].tk.ret)
                    /\ \A u \in Slots \ {p} : ev[i + 1].tab[u] = ev[i].tab[u]
                    /\ IF o.i_count = 1
                       THEN /\ o.i_size \in ev[i].pages
                            /\ ev[i + 1].pages = ev[i].pages \ {o.i_size}
                            /\ ev[i + 1].tab[p] =
                                   [o EXCEPT !.i_count = 0, !.i_dirt = 0, !.i_pipe = 0]
                       ELSE /\ ev[i + 1].pages = ev[i].pages
                            /\ ev[i + 1].tab[p] = [o EXCEPT !.i_count = o.i_count - 1]
              /\ At(i, "iput_body") /\ o.i_count > 1 /\ o.i_pipe = 0
                 => \/ /\ o.i_dev = 0
                       /\ ev[i + 1].tab = [ev[i].tab EXCEPT ![p].i_count = o.i_count - 1]
                       /\ ev[i + 1].tk.pc = Head(ev[i].tk.ret)
                    \/ /\ o.i_dev # 0
                       /\ ev[i + 1].tab = ev[i].tab
                       /\ ev[i + 1].tk.pc \in {"iput_repeat", "iput_synced"}
              /\ At(i, "iput_repeat") /\ o.i_count > 1
                 => /\ ev[i + 1].tab = [ev[i].tab EXCEPT ![p].i_count = o.i_count - 1]
                    /\ ev[i + 1].disk = ev[i].disk /\ ev[i + 1].pages = ev[i].pages
                    /\ ev[i + 1].tk.pc = Head(ev[i].tk.ret)
    /\ \A i \in Events :
          ev[i].tk.pc \in {"wi_lock", "wi_check", "wi_copy"}
          => ev[i].tab[ev[i].tk.winode].i_pipe = 0

\* C9 witness: the second iput of a pipe inode brought i_count from 1 to 0 and
\* freed the page.
C9_Witness ==
    \E i \in Events :
        LET p == ev[i].tk.pinode
        IN  /\ At(i, "iput_body")
            /\ ev[i].tab[p].i_pipe = 1 /\ ev[i].tab[p].i_count = 1
            /\ ev[i].pages = {1} /\ pages = {}
            /\ inode_table[p].i_count = 0 /\ inode_table[p].i_pipe = 0
            /\ refs[p] = 0

\* C10: at the repeat label of iput, with i_count = 1 and i_nlinks > 0: a dirty
\* inode is not released but written (write_inode, wait_on_inode) and the test
\* is made again, a clean inode goes to i_count = 0; so i_count goes from 1 to 0
\* only with i_dirt = 0, and the slot an iput leaves unreferenced is clean and
\* equal to its disk record.  With i_count > 1 (another task holds the inode)
\* the iput only decrements and returns, and the inode stays referenced.
C10_LastReleaseWritesBack ==
    /\ \A i \in Events :
          LET p == ev[i].tk.pinode
              o == ev[i].tab[p]
          IN  /\ At(i, "iput_repeat") /\ o.i_count = 1 /\ o.i_nlinks > 0 /\ o.i_dirt # 0
                 => /\ ev[i + 1].tab = ev[i].tab
                    /\ ev[i + 1].tk.pc = "wi_lock" /\ ev[i + 1].tk.winode = p
                    /\ Head(ev[i + 1].tk.ret) = "iput_wait3"
              /\ At(i, "iput_repeat") /\ o.i_count = 1 /\ o.i_nlinks > 0 /\ o.i_dirt = 0
                 => /\ ev[i + 1].tab = [ev[i].tab EXCEPT ![p].i_count = 0]
                    /\ ev[i + 1].tk.pc = Head(ev[i].tk.ret)
                    /\ o.i_dev # 0 => ev[i].disk[<<o.i_dev, o.i_num>>] = DPart(o)
              /\ At(i, "iput_repeat") /\ o.i_count > 1
                 => /\ ev[i + 1].tab = [ev[i].tab EXCEPT ![p].i_count = o.i_count - 1]
                    /\ ev[i + 1].tab[p].i_count >= 1
                    /\ ev[i + 1].tk.pc = Head(ev[i].tk.ret)
              /\ At(i, "iput_wait3")
                 => ev[i + 1].tk.pc = "iput_repeat" /\ ev[i + 1].tab = ev[i].tab
              /\ At(i, "wi_copy") /\ Head(ev[i].tk.ret) = "iput_wait3"
                                  /\ ev[i + 1].panicked = ""
                 => /\ ev[i + 1].tk.pc = "iput_wait3"
                    /\ ev[i + 1].tab[p].i_dirt = 0
                    /\ ev[i + 1].disk[<<o.i_dev, o.i_num>>] = DPart(o)
              /\ ev[i].tk.pc \in {"iput_body", "iput_repeat"} /\ o.i_pipe = 0
                 /\ o.i_nlinks > 0 /\ o.i_dev # 0
                 /\ o.i_count = 1 /\ ev[i + 1].tab[p].i_count = 0
                 => o.i_dirt = 0

\* C10 witness: the last holder released a changed inode: iput slept in
\* write_inode, tested again and left the slot with i_count = 0, clean, with the
\* change on disk.
C10_Witness ==
    \E i, j \in Events :
        LET p == ev[i].tk.pinode
        IN  /\ i < j
            /\ At(i, "wi_copy") /\ Head(ev[i].tk.ret) = "iput_wait3"
            /\ At(j, "iput_repeat")
            /\ ev[i].tab[p].i_dirt = 1 /\ ev[i].tab[p].i_count = 1
            /\ ev[i].disk[<<ev[i].tab[p].i_dev, ev[i].tab[p].i_num>>]
                   # DPart(ev[i].tab[p])
            /\ inode_table[p].i_count = 0 /\ inode_table[p].i_dirt = 0
            /\ inode_table[p].i_dev # 0
            /\ disk[<<inode_table[p].i_dev, inode_table[p].i_num>>]
                   = DPart(inode_table[p])

\* statement i is the one at which sync_inodes returns to its caller
SyncReturns(i) ==
    /\ ev[i].tk.pc \in {"sync_body", "sync_next"}
    /\ ev[i + 1].tk.pc = "user"

\* C11: sync_inodes goes from each slot to the next and returns only after the
\* last one, and every slot before the one it is at has been dealt with (while no
\* inode was changed during the walk, none of them is a dirty non-pipe slot with
\* i_dev != 0); at each slot it goes on only with the lock free, calls
\* write_inode for a slot that is dirty and not a pipe and for no other slot, and
\* write_inode puts the record on disk and clears i_dirt.  When sync_inodes
\* returns and no inode was changed during the walk, no slot with i_dev != 0 that
\* is not a pipe has i_dirt set.
C11_SyncWritesAllDirty ==
    /\ \A i \in 1 .. Len(ev) :
          ev[i].tk.pc \in {"sync_wait", "sync_body"} /\ ~ev[i].tk.dirtied
          => \A s \in Slots :
                 s < ev[i].tk.i /\ ev[i].tab[s].i_dev # 0 /\ ev[i].tab[s].i_pipe = 0
                 => ev[i].tab[s].i_dirt = 0
    /\ \A i \in Events :
          LET tk == ev[i].tk
              o  == ev[i].tab[tk.i]
          IN  /\ At(i, "sync_wait")
                 => /\ o.i_lock = 0
                    /\ ev[i + 1].tk.pc = "sync_body" /\ ev[i + 1].tk.i = tk.i
                    /\ ev[i + 1].tab = ev[i].tab
              /\ At(i, "sync_body") /\ o.i_dirt # 0 /\ o.i_pipe = 0
                 => /\ ev[i + 1].tk.pc = "wi_lock" /\ ev[i + 1].tk.winode = tk.i
                    /\ Head(ev[i + 1].tk.ret) = "sync_next"
                    /\ ev[i + 1].tab = ev[i].tab
              /\ At(i, "sync_body") /\ (o.i_dirt = 0 \/ o.i_pipe # 0)
                 => /\ ev[i + 1].tk.pc \in {"sync_wait", "user"}
                    /\ ev[i + 1].tab = ev[i].tab /\ ev[i + 1].disk = ev[i].disk
              /\ ev[i].tk.pc \in {"sync_body", "sync_next"}
                 /\ ev[i + 1].tk.pc = "sync_wait"
                 => ev[i + 1].tk.i = tk.i + 1
              /\ SyncReturns(i) => tk.i = NR_INODE - 1
              /\ At(i, "wi_copy") /\ Head(tk.ret) = "sync_next"
                                  /\ ev[i + 1].panicked = ""
                 => /\ tk.winode = tk.i
                    /\ ev[i + 1].tab[tk.i].i_dirt = 0
                    /\ ev[i + 1].disk[<<o.i_dev, o.i_num>>] = DPart(o)
                    /\ ev[i + 1].tk.pc = "sync_next"
              /\ SyncReturns(i) /\ ~tk.dirtied
                 => \A s \in Slots :
                        ev[i + 1].tab[s].i_dev # 0 /\ ev[i + 1].tab[s].i_pipe = 0
                        => ev[i + 1].tab[s].i_dirt = 0

\* C11 witness: sync_inodes wrote a changed inode to disk and has returned, no
\* inode was changed meanwhile, and an inode is still held.
C11_Witness ==
    \E i, j \in Events :
        /\ i < j
        /\ At(i, "wi_copy") /\ Head(ev[i].tk.ret) = "sync_next"
        /\ ev[i].tab[ev[i].tk.winode].i_dirt = 1
        /\ ev[i].disk[<<ev[i].tab[ev[i].tk.winode].i_dev, ev[i].tab[ev[i].tk.winode].i_num>>]
               # DPart(ev[i].tab[ev[i].tk.winode])
        /\ SyncReturns(j) /\ ~ev[j].tk.dirtied
        /\ \E s \in Slots : refs[s] > 0 /\ inode_table[s].i_dev # 0
        /\ \A s \in Slots : inode_table[s].i_dirt = 0

\* C12: at each slot of its walk invalidate_inodes(dev) leaves a slot with
\* i_dev = dev and i_count > 0 as it is (only the diagnostic is printed), clears
\* i_dev and i_dirt of a slot with i_dev = dev and i_count = 0, and leaves the
\* slots of other devices unchanged.
C12_InvalidateSparesInUse ==
    \A i \in Events :
        LET s == ev[i].tk.i
            o == ev[i].tab[s]
        IN  At(i, "inv_body")
            => IF o.i_dev = ev[i].tk.idev /\ o.i_count = 0
               THEN ev[i + 1].tab = [ev[i].tab EXCEPT ![s].i_dev = 0, ![s].i_dirt = 0]
               ELSE ev[i + 1].tab = ev[i].tab

\* statement i clears the dirty flag of slot s
ClearsDirt(i, s) == ev[i].tab[s].i_dirt # 0 /\ ev[i + 1].tab[s].i_dirt = 0

\* statement i is the release of an unlinked inode: truncate and free_inode
FreesInode(i, s) ==
    /\ At(i, "iput_repeat") /\ ev[i].tk.pinode = s
    /\ ev[i].tab[s].i_nlinks = 0 /\ ev[i].tab[s].i_count = 1

\* C13: the i_dirt flag of a slot goes from set to clear only in write_inode, in
\* the statement that has copied the in-core record to the inode's disk slot; no
\* statement of invalidate_inodes, iput or get_empty_inode clears the flag of an
\* entry whose changes are not written.  (The slot of an unlinked inode that
\* free_inode gives up is left aside.)
C13_DirtClearedOnlyByWrite ==
    \A i \in Events : \A s \in Slots :
        ClearsDirt(i, s) /\ ~FreesInode(i, s)
        => /\ At(i, "wi_copy") /\ ev[i].tk.winode = s
           /\ ev[i + 1].disk[<<ev[i].tab[s].i_dev, ev[i].tab[s].i_num>>]
                  = DPart(ev[i].tab[s])

\* an iget and the iput of its handle were made back to back, with no other task
\* inside a call and no change to an inode in between, and the entry is still in
\* its slot
PairDone ==
    pair.phase = "done" /\ HasKey(inode_table, pair.h, pair.key[1], pair.key[2])

\* the number of slots with i_count > 0 never exceeds NR_INODE
InUseBounded ==
    /\ Cardinality({s \in Slots : inode_table[s].i_count > 0}) <= NR_INODE
    /\ \A i \in 1 .. Len(ev) :
          Cardinality({s \in Slots : ev[i].tab[s].i_count > 0}) <= NR_INODE

InLock == {"ri_super", "ri_copy", "wi_check", "wi_copy"}

\* the tasks that are between lock_inode and unlock_inode for slot s
Holders(s) == {t \in Tasks : task[t].pc \in InLock /\ task[t].winode = s}

\* C15: for each slot at most one task is between lock_inode and unlock_inode
\* (inside read_inode or write_inode), and while a task is there i_lock is set;
\* a task sets i_lock only when it is clear and no other task is between
\* lock_inode and unlock_inode for that slot, and the lock stays set at every
\* statement up to the unlock.
C15_OneLockHolder ==
    /\ \A s \in Slots :
          /\ Cardinality(Holders(s)) <= 1
          /\ Holders(s) # {} => inode_table[s].i_lock = 1
    /\ \A i \in Events :
          LET w == ev[i].tk.winode
          IN  /\ ev[i].tk.pc \in LockLabels
                 => /\ ev[i].tab[w].i_lock = 0
                    /\ ev[i + 1].tab[w].i_lock = 1
                    /\ ev[i + 1].tk.pc \in InLock /\ ev[i + 1].tk.winode = w
                    /\ \A u \in Tasks \ {ev[i].t} :
                           ~(task[u].pc \in InLock /\ task[u].winode = w)
              /\ ev[i].tk.pc \in InLock
                 => /\ ev[i].tab[w].i_lock = 1
                    /\ \A u \in Tasks \ {ev[i].t} :
                           ~(task[u].pc \in InLock /\ task[u].winode = w)

\* C15 witness: a task sleeps in the I/O of write_inode with the slot locked
\* while another task, which is to write the same inode, waits for the lock.
C15_Witness ==
    \E t, u \in Tasks :
        /\ t # u
        /\ task[t].pc = "wi_copy"
        /\ task[u].pc \in WaitLabels \cup LockLabels
        /\ WaitInode(task[u]) = task[t].winode
        /\ inode_table[task[t].winode].i_lock = 1
        /\ inode_table[task[t].winode].i_dirt = 1

\* task t sleeps in wait_on_inode or lock_inode for a slot whose lock is set
Waits(t) ==
    /\ task[t].pc \in WaitLabels \cup LockLabels
    /\ inode_table[WaitInode(task[t])].i_lock # 0

\* the last run is task t going on from its wait_on_inode or lock_inode for slot s
WentOn(t, s) ==
    /\ Len(ev) > 1 /\ ev[1].t = t
    /\ ev[1].tk.pc \in WaitLabels \cup LockLabels
    /\ WaitInode(ev[1].tk) = s

\* every wait_on_inode and lock_inode that was passed found the lock clear
PassesOnlyUnlocked ==
    \A i \in Events :
        ev[i].tk.pc \in WaitLabels \cup LockLabels
        => ev[i].tab[WaitInode(ev[i].tk)].i_lock = 0

CleanFree(tab) ==
    {s \in Slots : tab[s].i_count = 0 /\ tab[s].i_dirt = 0 /\ tab[s].i_lock = 0}

\* C17: the cursor last_inode is changed by the scan of get_empty_inode only and
\* keeps its value otherwise; when some slot has i_count = 0, i_dirt = 0 and
\* i_lock = 0 at the scan, get_empty_inode takes the first such slot in cyclic
\* order from the slot after the cursor, whatever unreferenced dirty or locked
\* slots come before it, leaves the cursor on it, and returns it cleared with
\* i_count = 1 without sleeping and without touching another slot.
C17_FirstCleanFromCursor ==
    /\ Len(ev) > 0 => last_inode = ev[Len(ev)].last
    /\ \A i \in Events :
          /\ ~At(i, "gei_scan") => ev[i + 1].last = ev[i].last
          /\ At(i, "gei_scan") /\ CleanFree(ev[i].tab) # {}
             => LET e == CycFirst(ev[i].last, CleanFree(ev[i].tab))
                IN  /\ ev[i + 1].tk.einode = e /\ ev[i + 1].last = e
                    /\ ev[i + 1].tab = ev[i].tab
                    /\ Len(ev) >= i + 4
                    /\ At(i + 1, "gei_wait1") /\ At(i + 2, "gei_dirt")
                    /\ At(i + 3, "gei_check")
                    /\ ev[i + 4].tab = [ev[i].tab EXCEPT ![e] = [ZeroInode EXCEPT !.i_count = 1]]
                    /\ ev[i + 4].tk.pc = Head(ev[i].tk.ret)
                    /\ ev[i + 4].last = e

\* C17 witness: an earlier call has moved the cursor; at this scan an
\* unreferenced dirty slot came first after the cursor and get_empty_inode
\* passed over it and returned the clean slot behind it.
C17_Witness ==
    \E i \in Events :
        /\ At(i, "gei_scan") /\ CleanFree(ev[i].tab) # {}
        /\ LET e == CycFirst(ev[i].last, CleanFree(ev[i].tab))
           IN  /\ \E u \in Slots :
                      /\ CycDist(ev[i].last, u) < CycDist(ev[i].last, e)
                      /\ ev[i].tab[u].i_count = 0 /\ ev[i].tab[u].i_dirt # 0
                  /\ Len(ev) >= i + 4
                  /\ ev[i + 4].tab[e] = [ZeroInode EXCEPT !.i_count = 1]
                  /\ ev[i].last # 0


\* ------------------------------------------------------------- C18
\* an ext2_inode call that ran to its end
Ext2InodeDone == ext2_call.fn = "ext2_inode" /\ panicked = ""

\* the pointers the call read from indirect blocks: every read but the first, which
\* is the read of the inode's record
Lookups ==
    LET reads == SelectSeq(ext2_call.io, LAMBDA e : e.op = "read")
    IN  SubSeq(reads, 2, Len(reads))

\* the block the call read last: the data block
DataBlock ==
    LET b == Breads(ext2_call.io)
    IN  b[Len(b)].block

\* Logical blocks below the triply-indirect range: direct pointer b; offset b - 12
\* of the single-indirect block; entry (r div A) of the double-indirect block and
\* entry (r mod A) of the block found there, r = b - 12 - A.
LevelsBelowTriple ==
    Ext2InodeDone =>
        LET A == ext2_sb.s_addr_per_block
            b == ext2_call.index
            r == b - EXT2_NDIR_BLOCKS - A
        IN  /\ b < EXT2_NDIR_BLOCKS =>
                  Lookups = <<>> /\ DataBlock = IData(b)
            /\ EXT2_NDIR_BLOCKS <= b /\ b < EXT2_NDIR_BLOCKS + A =>
                  /\ Len(Lookups) = 1
                  /\ Lookups[1].block = IData(EXT2_IND_BLOCK)
                  /\ Lookups[1].index = b - EXT2_NDIR_BLOCKS
            /\ 0 <= r /\ r < A * A =>
                  /\ Len(Lookups) = 2
                  /\ Lookups[1].block = IData(EXT2_DIND_BLOCK)
                  /\ Lookups[1].index = r \div A
                  /\ Lookups[2].index = r % A

\* Logical blocks from 12 + A + A*A on: three lookups, the first in the block of the
\* inode's triple-indirect pointer, at (r div A*A, (r div A) mod A, r mod A),
\* r = b - 12 - A - A*A.
LevelsTriple ==
    Ext2InodeDone =>
        LET A == ext2_sb.s_addr_per_block
            r == ext2_call.index - EXT2_NDIR_BLOCKS - A - A * A
        IN  r >= 0 =>
                  /\ Len(Lookups) = 3
                  /\ Lookups[1].block = IData(EXT2_TIND_BLOCK)
                  /\ Lookups[1].index = r \div (A * A)
                  /\ Lookups[2].index = (r \div A) % A
                  /\ Lookups[3].index = r % A

C19_InodeRecordPlace ==
    ext2_call.fn = "ext2_inode" =>
        LET n     == ext2_call.ino
            ipg   == ext2_sb.s_inodes_per_group
            ipb   == ext2_sb.s_inodes_per_block
            group == (n - 1) \div ipg
            local == (n - 1) % ipg
            block == Abs(GroupDesc(group).bg_inode_table + local \div ipb)
            io    == ext2_call.io
        IN  group < ext2_sb.s_groups_count =>
                /\ Len(io) >= 1
                /\ io[1].op = "bread" /\ io[1].block = block
                /\ Len(io) >= 2 =>
                       /\ io[2].op = "read" /\ io[2].block = block
                       /\ io[2].index = local % ipb

\* ------------------------------------------------------------- C20
\* the file system has no more groups than the bitmap caches have entries
SmallCache ==
    /\ ext2_sb.config = "group_desc"
    /\ ext2_sb.s_groups_count <= EXT2_MAX_GROUP_LOADED

\* a bitmap load for a group of the file system that returned
LoadDone ==
    /\ ext2_call.fn \in {"load_block_bitmap", "load_inode_bitmap"}
    /\ ext2_call.group < ext2_sb.s_groups_count
    /\ panicked = ""

\* The load returns the index g and entry g of the cache is group g's; it reads
\* from disk only when g was not requested before, and it releases no buffer.
LoadsOnce ==
    SmallCache /\ LoadDone =>
        LET g == ext2_call.group
        IN  /\ ext2_call.ret = g
            /\ ext2_call.fn = "load_block_bitmap" => ext2_sb.s_block_bitmap_number[g] = g
            /\ ext2_call.fn = "load_inode_bitmap" => ext2_sb.s_inode_bitmap_number[g] = g
            /\ Breads(ext2_call.io) # <<>> => ~ext2_call.again
            /\ \A k \in 1 .. Len(ext2_call.io) : ext2_call.io[k].op # "brelse"

\* A step leaves every bitmap that is in a cache in its entry.
KeepsBitmaps ==
    SmallCache =>
        \A i \in CacheIdx :
            /\ ext2_sb.s_block_bitmap[i] # NULL =>
                   /\ ext2_sb'.s_block_bitmap[i] = ext2_sb.s_block_bitmap[i]
                   /\ ext2_sb'.s_block_bitmap_number[i] = ext2_sb.s_block_bitmap_number[i]
            /\ ext2_sb.s_inode_bitmap[i] # NULL =>
                   /\ ext2_sb'.s_inode_bitmap[i] = ext2_sb.s_inode_bitmap[i]
                   /\ ext2_sb'.s_inode_bitmap_number[i] = ext2_sb.s_inode_bitmap_number[i]

\* C20 as stated: when the group count is at most EXT2_MAX_GROUP_LOADED,
\* load_block_bitmap and load_inode_bitmap for group g return index g, read the
\* bitmap from disk only the first time g is requested, and a later load never
\* releases, moves or replaces the bitmap of any group.
C20_SmallCacheLoadsOnce == []LoadsOnce /\ [][KeepsBitmaps]_vars

\* The load returns the index g and entry g of the cache is group g's; it reads
\* from disk only when g was not requested before or the last read of g's block
\* bitmap failed, and it releases no buffer.
LoadsOnceOrAfterFailure ==
    SmallCache /\ LoadDone =>
        LET g == ext2_call.group
        IN  /\ ext2_call.ret = g
            /\ ext2_call.fn = "load_block_bitmap" => ext2_sb.s_block_bitmap_number[g] = g
            /\ ext2_call.fn = "load_inode_bitmap" => ext2_sb.s_inode_bitmap_number[g] = g
            /\ Breads(ext2_call.io) # <<>> /\ ext2_call.again =>
                   ext2_call.fn = "load_block_bitmap" /\ ext2_call.failed
            /\ \A k \in 1 .. Len(ext2_call.io) : ext2_call.io[k].op # "brelse"

\* C20, amended: when the group count is at most EXT2_MAX_GROUP_LOADED,
\* load_block_bitmap and load_inode_bitmap for group g return index g, read the
\* bitmap from disk only the first time g is requested or, for the block bitmap,
\* again after a read of it that failed, and a later load never releases, moves or
\* replaces the bitmap of any group.
C20_SmallCacheLoadsUntilRead == []LoadsOnceOrAfterFailure /\ [][KeepsBitmaps]_vars

\* C20 witness: in a file system of two groups both block bitmaps were loaded on
\* request; group 1 is requested again, nothing is read, index 1 is returned and
\* both bitmaps are where they were.
C20_Witness ==
    /\ SmallCache /\ LoadDone
    /\ ext2_call.fn = "load_block_bitmap" /\ ext2_call.group = 1
    /\ ext2_call.again /\ ext2_call.io = <<>> /\ ext2_call.ret = 1
    /\ ext2_sb.asked_block = {0, 1}
    /\ ext2_sb.s_block_bitmap[0] = GroupDesc(0).bg_block_bitmap
    /\ ext2_sb.s_block_bitmap[1] = GroupDesc(1).bg_block_bitmap

\* ------------------------------------------------------------- C21
\* the file system has more groups than the bitmap caches have entries
LruCache ==
    /\ ext2_sb.config = "group_desc"
    /\ ext2_sb.s_groups_count > EXT2_MAX_GROUP_LOADED

\* the group numbers of the loaded entries of a cache, index 0 first
CacheList(sb, nr, ld) == [k \in 1 .. sb[ld] |-> sb[nr][k - 1]]

\* While the system runs and ext2_group_descriptor has not given the caches up, each
\* cache is the reference list; with `strict` every entry holds the bitmap of its
\* group, without it an entry of the block cache may hold no buffer.
LruIsReference(strict) ==
    LruCache /\ panicked = "" /\ ext2_call.fn # "ext2_group_descriptor" =>
        \A c \in Caches :
            /\ CacheList(ext2_sb, c.nr, c.ld) = ext2_sb[c.ref]
            /\ \A i \in CacheIdx : i < ext2_sb[c.ld] =>
                   \/ ext2_sb[c.bm][i] = GroupDesc(ext2_sb[c.nr][i])[c.bg]
                   \/ ~strict /\ c.fn = "load_block_bitmap" /\ ext2_sb[c.bm][i] = NULL
            /\ LoadDone /\ ext2_call.fn = c.fn =>
                   /\ ext2_call.ret = 0
                   /\ ext2_sb[c.ld] > 0
                   /\ ext2_sb[c.nr][0] = ext2_call.group

\* A load step on an LRU cache.  Hit: nothing is read or released, the entry goes to
\* index 0 and those before it move down by one.  Miss: the buffer at the last index
\* is released when the cache is full and nothing else is, the entries move down by
\* one and the bitmap that was read is at index 0; with `strict` that bitmap is the
\* group's, without it the entry holds no buffer when the read of the block bitmap
\* failed.
LruStep(strict) ==
    LruCache /\ LoadDone' =>
        \A c \in Caches : ext2_call'.fn = c.fn =>
            LET g    == ext2_call'.group
                io   == ext2_call'.io
                old  == ext2_sb
                new  == ext2_sb'
                hits == {i \in CacheIdx : i < old[c.ld] /\ old[c.nr][i] = g}
                rel  == SelectSeq(io, LAMBDA e : e.op = "brelse")
                full == old[c.ld] = EXT2_MAX_GROUP_LOADED
            IN  IF hits # {}
                THEN \E i \in hits :
                        /\ io = <<>>
                        /\ new[c.ld] = old[c.ld]
                        /\ \A j \in CacheIdx :
                              /\ new[c.nr][j] = old[c.nr][IF j = 0 THEN i ELSE IF j <= i THEN j - 1 ELSE j]
                              /\ new[c.bm][j] = old[c.bm][IF j = 0 THEN i ELSE IF j <= i THEN j - 1 ELSE j]
                ELSE /\ rel = IF full THEN <<Brelse(Abs(old[c.bm][EXT2_MAX_GROUP_LOADED - 1]))>>
                              ELSE <<>>
                     /\ Len(Breads(io)) = 1
                     /\ new[c.ld] = IF full THEN old[c.ld] ELSE old[c.ld] + 1
                     /\ new[c.nr][0] = g
                     /\ \/ new[c.bm][0] = GroupDesc(g)[c.bg]
                        \/ /\ ~strict /\ c.fn = "load_block_bitmap"
                           /\ ~Breads(io)[1].ok /\ new[c.bm][0] = NULL
                     /\ \A j \in CacheIdx : 0 < j /\ j < new[c.ld] =>
                              /\ new[c.nr][j] = old[c.nr][j - 1]
                              /\ new[c.bm][j] = old[c.bm][j - 1]

\* C21 as stated: when the group count exceeds EXT2_MAX_GROUP_LOADED, after any
\* sequence of bitmap loads each cache equals the move-to-front list of the requested
\* groups cut to the capacity; a hit moves the entry to index 0 and keeps the order
\* of the others, a miss on a full cache releases exactly the buffer at the last
\* index, moves the rest down by one and puts the newly read bitmap at index 0; each
\* load returns index 0, which then holds the requested group's bitmap.
C21_LruMoveToFront == []LruIsReference(TRUE) /\ [][LruStep(TRUE)]_vars

\* C21, amended: the same, but index 0 holds the requested group's bitmap or, after a
\* read of the block bitmap that failed, no buffer.
C21_LruMoveToFrontOrNoBuffer == []LruIsReference(FALSE) /\ [][LruStep(FALSE)]_vars

\* C21 witness: the block cache is full and a group that is not in it is requested: the buffer at the last index is
\* released, the new bitmap is read into index 0 and the other entry moved down.
C21_Witness ==
    /\ LruCache /\ LoadDone
    /\ ext2_call.fn = "load_block_bitmap"
    /\ ext2_sb.s_loaded_block_bitmaps = EXT2_MAX_GROUP_LOADED
    /\ \E k \in 1 .. Len(ext2_call.io) : ext2_call.io[k].op = "brelse"
    /\ Breads(ext2_call.io) # <<>> /\ Breads(ext2_call.io)[1].ok
    /\ ext2_sb.lru_block[1] = ext2_call.group
    /\ ext2_sb.s_block_bitmap[0] = GroupDesc(ext2_call.group).bg_block_bitmap
    /\ \A i \in CacheIdx : ext2_sb.s_block_bitmap[i] # NULL

\* ------------------------------------------------------------- C22
\* the blocks that hold block bitmaps, and those that hold inode bitmaps (a
\* descriptor read past the end of the descriptor block names an unknown block)
BitmapBlocks(field) == {Abs(GroupDesc(g)[field]) : g \in 0 .. (MaxGroups - 1)} \cup {Lost}

\* the buffers of the blocks in B that the operations io hold: read and not released
Held(io, B) ==
    Len(SelectSeq(io, LAMBDA e : e.op = "bread" /\ e.ok /\ e.block \in B))
    - Len(SelectSeq(io, LAMBDA e : e.op = "brelse" /\ e.block \in B))

\* C22: for one super block at most EXT2_MAX_GROUP_LOADED block bitmaps and at most
\* EXT2_MAX_GROUP_LOADED inode bitmaps are resident at any time, for every group
\* count: no operation, the population by ext2_group_descriptor included, stores a
\* bitmap at an index outside 0 .. EXT2_MAX_GROUP_LOADED-1.
C22_BitmapsWithinCache ==
    /\ ext2_call.stray = {}
    /\ ext2_call.fn = "ext2_group_descriptor" =>
           \A p \in 0 .. Len(ext2_call.io) :
               \A field \in {"bg_block_bitmap", "bg_inode_bitmap"} :
                   Held(SubSeq(ext2_call.io, 1, p), BitmapBlocks(field))
                       <= EXT2_MAX_GROUP_LOADED

\* ------------------------------------------------------------- C23
\* the number of set bits of a byte, bit by bit
RECURSIVE SetBits(_)
SetBits(b) == IF b = 0 THEN 0 ELSE (b % 2) + SetBits(b \div 2)

\* the number of set bits in the first n bytes
RECURSIVE SetBitsIn(_, _)
SetBitsIn(data, n) == IF n = 0 THEN 0 ELSE SetBitsIn(data, n - 1) + SetBits(data[n])

CountsFreeReturned == ext2_call.fn = "ext2_counts_free"

\* C23: ext2_counts_free(map, n) returns the number of zero bits in the first n
\* bytes of the bitmap, 8*n minus the number of set bits, whatever the bytes are
\* (top bit set included, char signed or not); n bytes 0b11110000 give 4*n; a
\* NULL map gives 0.
C23_CountsFreeZeroBits ==
    CountsFreeReturned =>
        LET a == ext2_call.arg
        IN  /\ a.map.null => ext2_call.res = 0
            /\ ~a.map.null =>
                  /\ ext2_call.res = 8 * a.numchars - SetBitsIn(a.map.data, a.numchars)
                  /\ (\A k \in 1 .. a.numchars : a.map.data[k] = 240) =>
                        ext2_call.res = 4 * a.numchars

\* MaxBytes bytes 0b11110000 on a build with signed char were counted as 4 * MaxBytes
C23_Witness ==
    /\ CountsFreeReturned
    /\ ~ext2_call.arg.map.null
    /\ ext2_call.arg.char_signed
    /\ ext2_call.arg.numchars = MaxBytes
    /\ \A k \in 1 .. MaxBytes : ext2_call.arg.map.data[k] = 240
    /\ ext2_call.res = 4 * MaxBytes

\* ------------------------------------------------------------- C24
CheckDescriptorsReturned == ext2_call.fn = "ext2_check_descriptors"

\* the descriptor of group i, found by its index in the descriptor blocks
DescOfGroup(a, i) ==
    a.s_group_desc[(i \div EXT2_DESC_PER_BLOCK) + 1][(i % EXT2_DESC_PER_BLOCK) + 1]

\* every field of group i's descriptor lies in lo .. hi
FieldsWithin(a, i, lo, hi) ==
    LET d == DescOfGroup(a, i)
    IN  /\ d.bg_block_bitmap \in lo .. hi
        /\ d.bg_inode_bitmap \in lo .. hi
        /\ d.bg_inode_table \in lo .. hi

\* C24: ext2_check_descriptors returns 1 exactly when, for every group i, the block
\* bitmap, the inode bitmap and the inode table lie in
\* [s_first_data_block + i*blocks_per_group, s_first_data_block + (i+1)*blocks_per_group),
\* also with more groups than one descriptor block holds; with first data block 1
\* and 8192 blocks per group the accepted range of group 1 is 8193 .. 16384.
C24_DescriptorsInGroup ==
    CheckDescriptorsReturned =>
        LET a  == ext2_call.arg
            lo(i) == a.s_first_data_block + i * a.s_blocks_per_group
        IN  /\ ext2_call.res.ret \in {0, 1}
            /\ ext2_call.res.ret = 1 <=>
                  \A i \in 0 .. (a.s_groups_count - 1) :
                      FieldsWithin(a, i, lo(i), lo(i + 1) - 1)
            /\ (a.s_first_data_block = 1 /\ a.s_blocks_per_group = 8192
                    /\ a.s_groups_count = 2) =>
                  (ext2_call.res.ret = 1 <=>
                      FieldsWithin(a, 0, 1, 8192) /\ FieldsWithin(a, 1, 8193, 16384))

\* descriptors over two descriptor blocks, group 1 with its inode table at 16384
\* and the last group with its block bitmap at its last block, were accepted
C24_Witness ==
    /\ CheckDescriptorsReturned
    /\ ext2_call.arg.s_groups_count = MaxGroups
    /\ Len(ext2_call.arg.s_group_desc) = 2
    /\ ext2_call.arg.s_first_data_block = 1
    /\ DescOfGroup(ext2_call.arg, 1).bg_inode_table = 16384
    /\ DescOfGroup(ext2_call.arg, MaxGroups - 1).bg_block_bitmap = MaxGroups * 8192
    /\ ext2_call.res.ret = 1

\* the block after group 1, 16385, was refused
C24_WitnessRefused ==
    /\ CheckDescriptorsReturned
    /\ ext2_call.arg.s_first_data_block = 1
    /\ ext2_call.arg.s_groups_count > 1
    /\ DescOfGroup(ext2_call.arg, 1).bg_inode_bitmap = 16385
    /\ ext2_call.res.ret = 0

\* ------------------------------------------------------------- C25
CheckNames == {"ext2_check_block_bitmap", "ext2_check_inode_bitmap", "ext2_check_descriptors"}

\* this step is a check that returned
CheckReturns(fn) == ext2_call'.fn = fn /\ panicked' = ""

\* the fields read from the on-disk super block
SuperFields(sb) ==
    <<sb.s_groups_count, sb.s_inodes_per_group, sb.s_inodes_per_block, sb.s_addr_per_block>>

\* a bitmap cache: loaded count, group numbers and buffers per index
BlockCache(sb) == <<sb.s_loaded_block_bitmaps, sb.s_block_bitmap_number, sb.s_block_bitmap>>
InodeCache(sb) == <<sb.s_loaded_inode_bitmaps, sb.s_inode_bitmap_number, sb.s_inode_bitmap>>

\* the cache holds the bitmap of every group at the group's index
HoldsAll(sb, number, bitmap) ==
    /\ sb.s_groups_count <= EXT2_MAX_GROUP_LOADED
    /\ \A g \in 0 .. (sb.s_groups_count - 1) : number[g] = g /\ bitmap[g] # NULL

\* a check that returned left the super block fields, the descriptors it was given
\* and, with `always` or when the cache held every bitmap, the bitmap caches as
\* they were
ChecksKeep(always) ==
    /\ (\E fn \in CheckNames : CheckReturns(fn)) =>
          SuperFields(ext2_sb') = SuperFields(ext2_sb)
    /\ CheckReturns("ext2_check_descriptors") =>
          /\ ext2_call'.arg = ext2_call.arg
          /\ BlockCache(ext2_sb') = BlockCache(ext2_sb)
          /\ InodeCache(ext2_sb') = InodeCache(ext2_sb)
    /\ CheckReturns("ext2_check_block_bitmap") =>
          /\ InodeCache(ext2_sb') = InodeCache(ext2_sb)
          /\ (always \/ HoldsAll(ext2_sb, ext2_sb.s_block_bitmap_number,
                                 ext2_sb.s_block_bitmap)) =>
                BlockCache(ext2_sb') = BlockCache(ext2_sb)
    /\ CheckReturns("ext2_check_inode_bitmap") =>
          /\ BlockCache(ext2_sb') = BlockCache(ext2_sb)
          /\ (always \/ HoldsAll(ext2_sb, ext2_sb.s_inode_bitmap_number,
                                 ext2_sb.s_inode_bitmap)) =>
                InodeCache(ext2_sb') = InodeCache(ext2_sb)

\* C25: ext2_check_block_bitmap, ext2_check_descriptors and ext2_check_inode_bitmap
\* are read-only: after each returns, the super block fields, the group descriptors
\* and the in-core bitmap caches (loaded count, group numbers, buffers per index)
\* are the same as before the call.
C25_ChecksReadOnly == [][ChecksKeep(TRUE)]_vars

\* What the checks do keep: the super block fields and the descriptors are as
\* before; a bitmap cache is as before when it held the bitmap of every group, and
\* the check of one kind of bitmap leaves the cache of the other kind alone.
ChecksReadOnlyWhenCached == [][ChecksKeep(FALSE)]_vars

\* ext2_check_block_bitmap returned after it went through EXT2_MAX_GROUP_LOADED
\* groups whose bitmaps the cache held: it read nothing and looked at each bitmap
CheckOfCachedBitmaps ==
    /\ ext2_call.fn = "ext2_check_block_bitmap"
    /\ panicked = ""
    /\ ext2_sb.s_groups_count = EXT2_MAX_GROUP_LOADED
    /\ HoldsAll(ext2_sb, ext2_sb.s_block_bitmap_number, ext2_sb.s_block_bitmap)
    /\ Breads(ext2_call.io) = <<>>
    /\ Len(ext2_call.io) = EXT2_MAX_GROUP_LOADED

\* ------------------------------------------------------------- C26
\* a bitmap check is the last call, and one of its reads returned no buffer
CheckReadFailed(fn) ==
    /\ ext2_call.fn = fn
    /\ \E k \in 1 .. Len(ext2_call.io) : ext2_call.io[k].op = "bread" /\ ~ext2_call.io[k].ok

\* the call looked into the data of a buffer that is not there
DerefOfMissing(io) == \E k \in 1 .. Len(io) : io[k].op = "read" /\ io[k].block = Abs(NULL)

\* the block bitmap check after an unreadable bitmap: not halted, nothing missing read
BlockCheckGoesOn ==
    CheckReadFailed("ext2_check_block_bitmap") =>
        panicked = "" /\ ~DerefOfMissing(ext2_call.io)

\* the inode bitmap check after an unreadable bitmap: not halted, nothing missing read
InodeCheckGoesOn ==
    CheckReadFailed("ext2_check_inode_bitmap") =>
        panicked = "" /\ ~DerefOfMissing(ext2_call.io)

\* C26: when the bitmap block of some group cannot be read during
\* ext2_check_block_bitmap or ext2_check_inode_bitmap, the failure is reported and
\* the check goes on with the next group: the system is not halted and the missing
\* buffer is never dereferenced.
C26_UnreadableBitmapSkipped == BlockCheckGoesOn /\ InodeCheckGoesOn

\* ------------------------------------------------------------- C27
\* the groups that ext2_check_descriptors was given with a block out of range
OffendingGroups(a) ==
    {i \in 0 .. (a.s_groups_count - 1) :
        ~FieldsWithin(a, i, a.s_first_data_block + i * a.s_blocks_per_group,
                      a.s_first_data_block + (i + 1) * a.s_blocks_per_group - 1)}

\* ext2_check_descriptors printed a message at every offending group
DescriptorsAllReported ==
    CheckDescriptorsReturned =>
        \A i \in OffendingGroups(ext2_call.arg) :
            \E k \in 1 .. Len(ext2_call.res.msgs) : ext2_call.res.msgs[k].group = i

\* ext2_inode did not halt on a field of the inode that differs from its record
InodeMismatchNotFatal ==
    ext2_call.fn = "ext2_inode" =>
        \A k \in 1 .. Len(FieldPanics) : panicked # FieldPanics[k]

\* C27: every mismatch found by the consistency checker is reported and none halts
\* the system or stops the check: ext2_check_descriptors reports an out-of-range
\* block for every offending group, not only the first, and a difference between
\* an in-core inode field and its on-disk record is printed, not fatal.
C27_MismatchesReportedNotFatal == DescriptorsAllReported /\ InodeMismatchNotFatal

\* ------------------------------------------------------------- C28
\* the block and the slot of inode n as the layout of the device defines them
RecordBlock(n) ==
    2 + super_block[0].s_imap_blocks + super_block[0].s_zmap_blocks
      + ((n - 1) \div INODES_PER_BLOCK)
RecordSlot(n) == (n - 1) % INODES_PER_BLOCK

\* the record of inode n on the device
RecordOnDisk(blocks, n) == blocks[RecordBlock(n)][RecordSlot(n)]

\* read_inode of an inode returned what write_inode wrote for it last
RoundTrip ==
    \A n \in InodeNums :
        (ev.read[n] # NoRecord /\ ev.written[n] # NoRecord) => ev.read[n] = ev.written[n]

\* a write_inode that wrote put the record at the inode's block and slot and changed
\* nothing else on the device; a read_inode took the record from the same place
SamePlace ==
    LET n == ext2_call'.ino
    IN  /\ (ext2_call'.fn = "write_inode" /\ ext2_call'.io # <<>> /\ panicked' = "") =>
              /\ ext2_call'.io[1].block = Abs(RecordBlock(n))
              /\ disk' = [disk EXCEPT ![RecordBlock(n)][RecordSlot(n)] = ev'.written[n]]
              /\ \A m \in InodeNums \ {n} : RecordOnDisk(disk', m) = RecordOnDisk(disk, m)
        /\ (ext2_call'.fn = "read_inode" /\ panicked' = "") =>
              /\ ext2_call'.io[1].block = Abs(RecordBlock(n))
              /\ ev'.read[n] = RecordOnDisk(disk, n)

\* C28: round trip of the inode record: for any inode number n and any record,
\* write_inode followed by read_inode of the same (dev, n) yields the same on-disk
\* fields, because both use block 2 + imap_blocks + zmap_blocks + (n-1) div
\* INODES_PER_BLOCK and slot (n-1) mod INODES_PER_BLOCK; and writing inode n changes
\* no other inode's record in the shared inode-table block.
C28_RecordRoundTrip == []RoundTrip /\ [][SamePlace]_vars

\* inode n was written and read back with the record written, while inode m of the
\* same block still has the record it had
C28_Witness ==
    \E n, m \in InodeNums :
        /\ n # m /\ RecordBlock(n) = RecordBlock(m)
        /\ ev.written[n] \in ChangedRecords
        /\ ev.read[n] = ev.written[n]
        /\ ext2_call.fn = "read_inode" /\ ext2_call.ino = n
        /\ RecordOnDisk(disk, m) = DInode("reg", 1, m)

\* ------------------------------------------------------------- C29
\* the calls of sys_vfs_ext2fs that read blocks
ReadingCalls == {"ext2_superblock", "ext2_superblock_vfs", "ext2_group_descriptor",
                 "ext2_inode", "read_inode", "write_inode"}

\* the blocks whose buffers the operations io name (brelse(NULL) does nothing)
BlocksOf(io) == {io[k].block : k \in 1 .. Len(io)} \ {Abs(NULL)}

\* at no point was a buffer released more often than it was read
NeverReleasedTwice(io) ==
    \A k \in 1 .. Len(io) : \A b \in BlocksOf(io) : Held(SubSeq(io, 1, k), {b}) >= 0

\* the buffers that the super block keeps when the call returns: the descriptor
\* blocks in s_group_desc after ext2_superblock_vfs returned 0
KeptInSuper ==
    IF ext2_call.fn = "ext2_superblock_vfs" /\ ext2_call.ret = 0
    THEN {Abs(SUPER_BLOCK + j) : j \in 1 .. bh_count(ext2_sb)}
    ELSE {}

\* when the call returned, every buffer it read was released or is kept
AllReleased(io) ==
    \A b \in BlocksOf(io) \ KeptInSuper : Held(io, {b}) = 0

\* C29: every buffer obtained with bread is released with brelse exactly once on
\* every exit path of the operation that obtained it (or is kept in the super
\* block's cache): no path of ext2_superblock, ext2_superblock_vfs,
\* ext2_group_descriptor, ext2_inode, read_inode or write_inode leaves a buffer
\* unreleased, and none releases the same buffer twice, including the paths taken
\* when a later read fails.
C29_BuffersReleasedOnce ==
    ext2_call.fn \in ReadingCalls =>
        /\ NeverReleasedTwice(ext2_call.io)
        /\ panicked = "" => AllReleased(ext2_call.io)

\* the same of one function
ReleasedOnceBy(fn) ==
    ext2_call.fn = fn =>
        /\ NeverReleasedTwice(ext2_call.io)
        /\ panicked = "" => AllReleased(ext2_call.io)

\* ------------------------------------------------------------- C30
\* the call stopped at its k-th buffer operation, a read that returned no buffer,
\* with a panic of its own
HaltsAtFailedRead(io, k) ==
    /\ k = Len(io)
    /\ panicked \notin {"", "NULL buffer dereferenced"}

\* C30: a mandatory metadata lookup that cannot be satisfied is fatal and never
\* yields a usable result: an unreadable inode-table or indirect block makes the
\* operation panic, and no code continues with the missing buffer.
C30_UnreadableBlockIsFatal ==
    ext2_call.fn = "ext2_inode" =>
        \A k \in 1 .. Len(ext2_call.io) :
            (ext2_call.io[k].op = "bread" /\ ~ext2_call.io[k].ok) =>
                HaltsAtFailedRead(ext2_call.io, k)

\* the same of the blocks that the block lookup reads (every read but the first,
\* which is the inode-table block)
UnreadableIndirectIsFatal ==
    ext2_call.fn = "ext2_inode" =>
        \A k \in 2 .. Len(ext2_call.io) :
            (ext2_call.io[k].op = "bread" /\ ~ext2_call.io[k].ok) =>
                HaltsAtFailedRead(ext2_call.io, k)

\* an indirect block could not be read and the call halted there
UnreadableIndirectHalted ==
    /\ ext2_call.fn = "ext2_inode"
    /\ Len(ext2_call.io) > 2
    /\ ~ext2_call.io[Len(ext2_call.io)].ok
    /\ panicked = "Unable to load buffer from disk"

\* ------------------------------------------------------------- C31
\* the slots of table tab that are unreferenced
Unreferenced(tab) == {s \in Slots : tab[s].i_count = 0}

\* a scan of get_empty_inode that finds unreferenced slots, none of them clean and
\* unlocked
ScanOfDirtyOnly(i) ==
    /\ At(i, "gei_scan")
    /\ CleanFree(ev[i].tab) = {}
    /\ Unreferenced(ev[i].tab) # {}

\* the scan takes the first unreferenced slot after the cursor
TakesFirstUnreferenced(i) ==
    ev[i + 1].tk.einode = CycFirst(ev[i].last, Unreferenced(ev[i].tab))

\* the scan takes the last unreferenced slot of the round that starts after the cursor
TakesLastUnreferenced(i) ==
    LET free == Unreferenced(ev[i].tab)
    IN  \A u \in free : CycDist(ev[i].last, u) <= CycDist(ev[i].last, ev[i + 1].tk.einode)

\* the slot taken is written back while it is dirty, and handed out only clean
WrittenBackThenReused(i) ==
    LET e == ev[i + 1].tk.einode
    IN  /\ At(i + 1, "gei_wait1")
        /\ Len(ev) >= i + 3 /\ ev[i + 2].tab[e].i_dirt # 0
           => /\ At(i + 2, "gei_dirt")
              /\ ev[i + 3].tk.pc = "wi_lock" /\ ev[i + 3].tk.winode = e
        /\ \A j \in Events :
              At(j, "gei_check") /\ ev[j].tab[ev[j].tk.einode].i_count = 0
              => ev[j].tab[ev[j].tk.einode].i_dirt = 0

ScanTakesLastKeepsCursor ==
    \A i \in Events :
        ScanOfDirtyOnly(i)
        => /\ TakesLastUnreferenced(i)
           /\ WrittenBackThenReused(i)
           /\ ev[i + 1].last = ev[i].last

\* such a scan happened, and the slot it took is not where the cursor is
ScanOfDirtyOnlySeen ==
    \E i \in Events :
        /\ ScanOfDirtyOnly(i)
        /\ ev[i + 1].last # ev[i + 1].tk.einode

\* ------------------------------------------------------------- C32
\* the operations of the block lookup of an ext2_inode call: all but the read of
\* the inode's record, whose buffer bh is kept to the end of the call
LookupOps == {k \in 3 .. Len(ext2_call.io) : ext2_call.io[k].block # ext2_call.io[1].block}

\* the buffers other than bh that are owned before operation k
OwnedBefore(k) ==
    {b \in BlocksOf(ext2_call.io) \ {ext2_call.io[1].block} :
        Held(SubSeq(ext2_call.io, 1, k - 1), {b}) > 0}

\* no two buffers of the lookup are owned at a time: a bread finds none owned
OneBufferAtATime ==
    \A k \in LookupOps : ext2_call.io[k].op = "bread" => OwnedBefore(k) = {}

\* the pointers read during the lookup are read from a buffer that is owned
PointersReadWhileOwned(levels) ==
    \A k \in LookupOps :
        /\ ext2_call.io[k].op = "read"
        /\ Levels(ext2_sb.s_addr_per_block, ext2_call.index) \in levels
        => ext2_call.io[k].block \in OwnedBefore(k)

SingleIndirectReadBeforeRelease ==
    ext2_call.fn = "ext2_inode" =>
        OneBufferAtATime /\ PointersReadWhileOwned({1})

\* a lookup through the single-indirect block ran to its end
SingleIndirectLookupDone ==
    /\ Ext2InodeDone
    /\ Levels(ext2_sb.s_addr_per_block, ext2_call.index) = 1
    /\ \E k \in LookupOps : ext2_call.io[k].op = "read"

\* ------------------------------------------------------------- C33
\* what the group's bitmap and the counts on disk call for: a diagnostic for the
\* super block, each descriptor block, the block bitmap, the inode bitmap and each
\* block of the inode table that is marked free in the bitmap of the group, one
\* for a group whose zero bits are not as many as bg_free_blocks_count, and one
\* when all the zero bits are not as many as s_free_blocks_count
DueReports(a) ==
    LET G    == 0 .. (a.s_groups_count - 1)
        free(nr, i) == ~test_bit(nr, a.bitmap[i + 1])
        at(block) == (block - a.disk_es.s_first_data_block) % a.s_blocks_per_group
        desc_blocks == (a.s_groups_count + EXT2_DESC_PER_BLOCK - 1) \div EXT2_DESC_PER_BLOCK
        zeros(i) == ZeroBits(a.bitmap[i + 1])
        all  == IF a.s_groups_count = 1 THEN zeros(0) ELSE zeros(0) + zeros(1)
    IN  {Report("Superblock in group %d is marked free", 0, i) : i \in {g \in G : free(0, g)}}
        \cup {Report("Descriptor block %d in group is marked free", p[2], p[1]) :
                 p \in {q \in G \X (0 .. (desc_blocks - 1)) : free(q[2] + 1, q[1])}}
        \cup {Report("Block bitmap for group %d is marked free", 0, i) :
                 i \in {g \in G : free(at(a.gdp[g + 1].bg_block_bitmap), g)}}
        \cup {Report("Inode bitmap for group %d is marked free", 0, i) :
                 i \in {g \in G : free(at(a.gdp[g + 1].bg_inode_bitmap), g)}}
        \cup {Report("Block %d of the inode table is marked free", p[2], p[1]) :
                 p \in {q \in G \X (0 .. (a.itb - 1)) :
                           free(at(a.gdp[q[1] + 1].bg_inode_table + q[2]), q[1])}}
        \cup {Report("Wrong free blocks count for group %d", 0, i) :
                 i \in {g \in G : zeros(g) # a.gdp[g + 1].bg_free_blocks_count}}
        \cup (IF all # a.disk_es.s_free_blocks_count
              THEN {Report("Wrong free blocks count in super block", 0, NULL)}
              ELSE {})

\* the messages printed, each with the group whose bitmap it is about and, for a
\* descriptor block or a block of the inode table, the number of the block
Reported(res) ==
    {IF res[k].msg \in {"Descriptor block %d in group is marked free",
                        "Block %d of the inode table is marked free"}
     THEN res[k] ELSE [res[k] EXCEPT !.n = 0] : k \in 1 .. Len(res)}

BlockBitsChecked == ext2_call.fn = "ext2_check_block_bitmap"

\* C33: ext2_check_block_bitmap prints a diagnostic exactly for the reserved
\* blocks (super block, descriptor blocks, block bitmap, inode bitmap, blocks of
\* the inode table) that the bitmap of their group marks free, a wrong group
\* count exactly for the groups whose zero bits differ from bg_free_blocks_count,
\* and a wrong super block count exactly when the zero bits of all groups differ
\* from s_free_blocks_count.
C33_ReportsExactlyMarkedFree ==
    BlockBitsChecked => Reported(ext2_call.res) = DueReports(ext2_call.arg)

\* What holds: the diagnostics are exact when s_itb_per_group was computed and
\* the super block read through s_es is the one on disk.
ReportsExactWithInodeTableSize ==
    (/\ BlockBitsChecked
     /\ ext2_call.arg.s_itb_per_group = ext2_call.arg.itb
     /\ ext2_call.arg.es = ext2_call.arg.disk_es)
    => Reported(ext2_call.res) = DueReports(ext2_call.arg)

\* Without s_itb_per_group, everything but the blocks of the inode table is
\* reported exactly.
ReportsAllButInodeTable ==
    (/\ BlockBitsChecked
     /\ ext2_call.arg.es = ext2_call.arg.disk_es)
    => {r \in Reported(ext2_call.res) :
            r.msg # "Block %d of the inode table is marked free"}
       = {r \in DueReports(ext2_call.arg) :
            r.msg # "Block %d of the inode table is marked free"}

\* a check, by ext2_group_descriptor alone, of a group whose first block of the
\* inode table is marked free: nothing is printed about it
InodeTableBlockFreeUnreported ==
    /\ BlockBitsChecked
    /\ ext2_call.arg.s_itb_per_group = 0
    /\ ext2_call.arg.es = ext2_call.arg.disk_es
    /\ Report("Block %d of the inode table is marked free", 0, 0)
           \in DueReports(ext2_call.arg)
    /\ \A k \in 1 .. Len(ext2_call.res) :
           ext2_call.res[k].msg # "Block %d of the inode table is marked free"

\* ------------------------------------------------------------- C34
GeiLabels == {"gei_scan", "gei_wait1", "gei_dirt", "gei_wait2", "gei_check"}

\* the task is inside get_empty_inode, or inside the write_inode it called
InGetEmptyInode(t) ==
    \/ task[t].pc \in GeiLabels
    \/ \E k \in 1 .. Len(task[t].ret) : task[t].ret[k] \in GeiLabels

\* the task spins in the write-back loop of get_empty_inode: its run came back
\* to a state it was in, without having slept
SpinsInWriteBack(t) ==
    /\ hung
    /\ InGetEmptyInode(t)
    /\ task[t].einode # NULL

\* C34: get_empty_inode terminates, with a slot or in a panic, whenever the I/O
\* of the other tasks completes and the scheduler is fair: a task that is inside
\* it leaves it or the system halts in a panic; this includes the write-back loop
\* on a slot with i_dirt set and i_dev = 0.
C34_GetEmptyInodeTerminates ==
    \A t \in Tasks : InGetEmptyInode(t) ~> (~InGetEmptyInode(t) \/ panicked # "")

\* What holds: get_empty_inode is left, or the system panics, or the task spins
\* in the write-back loop on a dirty slot without a device.
TerminatesOrSpinsOnDeviceless ==
    \A t \in Tasks :
        InGetEmptyInode(t) ~> \/ ~InGetEmptyInode(t)
                              \/ panicked # ""
                              \/ /\ SpinsInWriteBack(t)
                                 /\ inode_table[task[t].einode].i_dirt # 0
                                 /\ inode_table[task[t].einode].i_dev = 0

\* The spinning call was given a table that held a dirty unreferenced slot
\* without a device: a holder dirtied it after invalidate_inodes and released it.
SpinsOnDirtyDeviceless ==
    \E t \in Tasks :
        /\ SpinsInWriteBack(t)
        /\ LET s == task[t].einode
           IN  /\ ev[1].tab[s].i_dirt # 0
               /\ ev[1].tab[s].i_dev = 0
               /\ ev[1].tab[s].i_count = 0
               /\ inode_table[s].i_dirt # 0

\* ------------------------------------------------------------- C35
\* the statements of iget itself (not of the functions it calls)
IgetLabels == {"iget", "iget_empty", "iget_scan", "iget_wait", "iget_recheck",
               "iget_mount", "iget_ret"}

\* statement i raises i_count of slot s
Increments(i, s) == ev[i + 1].tab[s].i_count > ev[i].tab[s].i_count

\* C35: iget increments i_count only of a slot that holds the requested key
\* (i_dev, i_num) at the moment of the increment: after the wait on the slot's
\* lock it compares the key again, and when the key changed while the task slept
\* it increments nothing and starts the scan again at the first slot.
C35_IncrementOnlyOfRequestedKey ==
    \A i \in Events :
        LET tk == ev[i].tk
        IN  /\ tk.pc \in IgetLabels
               => \A s \in Slots :
                     Increments(i, s)
                     => /\ At(i, "iget_recheck") /\ s = tk.inode
                        /\ ev[i].tab[s].i_dev = tk.dev /\ ev[i].tab[s].i_num = tk.nr
                        /\ ev[i + 1].tab[s].i_count = ev[i].tab[s].i_count + 1
            /\ At(i, "iget_wait") => ev[i + 1].tk.pc = "iget_recheck"
            /\ At(i, "iget_recheck")
               /\ (ev[i].tab[tk.inode].i_dev # tk.dev \/ ev[i].tab[tk.inode].i_num # tk.nr)
               => /\ ev[i + 1].tab = ev[i].tab
                  /\ ev[i + 1].tk.pc = "iget_scan"
                  /\ ev[i + 1].tk.inode = 0

\* C35 witness: a task that slept in iget's wait for a locked slot holding its
\* key was resumed after the slot lost the key; it compared, took nothing from
\* that slot, scanned again from the first slot, found the key nowhere and now
\* loads the inode into its spare slot.
C35_Witness ==
    /\ Len(ev) > 2
    /\ At(1, "iget_wait")
    /\ At(2, "iget_recheck")
    /\ LET tk == ev[2].tk
       IN  /\ ev[2].tab[tk.inode].i_dev # tk.dev
           /\ ev[3].tk.pc = "iget_scan" /\ ev[3].tk.inode = 0
           /\ ev[3].tab[tk.inode].i_count = ev[2].tab[tk.inode].i_count
           /\ task[ev[1].t].pc = "ri_copy"
           /\ task[ev[1].t].winode = tk.empty
           /\ panicked = ""

\* ------------------------------------------------------------- C36
\* the task is inside a call of iget (iget is entered from user mode, the other
\* calls return to "user")
InIget(tk) ==
    /\ tk.pc \notin {"user", "panic"}
    /\ \A k \in 1 .. Len(tk.ret) : tk.ret[k] # "user"

\* i_count of slot s without the reference of a spare slot that the sleeping
\* task tk has reserved and not yet used or released
OwnCount(tab, tk, s) ==
    tab[s].i_count - (IF tk.pc = "iget_wait" /\ tk.empty = s THEN 1 ELSE 0)

\* On every path of iget that returns a slot found with the key, the plain one
\* and the one of a mount point without a super block, the spare slot is back
\* to i_count = 0 with i_dev = 0, clean, when iget has returned.
SpareReleasedOnHit ==
    \A i \in Events :
        LET tk == ev[i].tk
            s  == tk.inode
        IN  /\ At(i, "iget_recheck")
            /\ ev[i].tab[s].i_dev = tk.dev /\ ev[i].tab[s].i_num = tk.nr
            /\ ev[i].tab[s].i_mount = 0 \/ mounted_sb(s) = NR_SUPER
            => /\ tk.empty # NULL /\ tk.empty # s
               /\ task[ev[i].t].pc = "user"
               /\ panicked = ""
               /\ inode_table[tk.empty].i_count = 0
               /\ inode_table[tk.empty].i_dev = 0
               /\ inode_table[tk.empty].i_dirt = 0
               /\ inode_table[tk.empty].i_lock = 0

\* What the statements of an iget do to the counts, run by run (between its
\* sleeps): the run in which iget returns a slot it found, or puts the key into
\* its spare slot to load it, leaves exactly one slot's i_count one higher and
\* every other as it was; every other run of the call leaves all counts as they
\* were.
OneCountOneHigher ==
    Len(ev) > 0 /\ InIget(ev[1].tk) /\ panicked = "" /\ ~hung
    => LET t     == ev[1].t
           d(s)  == OwnCount(inode_table, task[t], s) - OwnCount(ev[1].tab, ev[1].tk, s)
           gains == /\ ev[1].tk.pc # "ri_copy"
                    /\ task[t].pc \in {"user", "ri_copy"}
       IN  IF gains
           THEN \E s \in Slots : d(s) = 1 /\ \A u \in Slots \ {s} : d(u) = 0
           ELSE \A s \in Slots : d(s) = 0

\* C36: the spare slot that iget reserves before the scan is never leaked: when
\* the key was found in another slot the spare is released on return (also for a
\* mount point without a super block), and an iget that has returned has raised
\* exactly one slot's i_count by one.
C36_SpareNeverLeaked == SpareReleasedOnHit /\ OneCountOneHigher

\* C36 witness: iget found a mount point that has no super block, returned it
\* with one more reference, and its spare slot is free again.
C36_Witness ==
    /\ Len(ev) > 1 /\ At(1, "iget") /\ panicked = ""
    /\ task[ev[1].t].pc = "user"
    /\ \E i \in Events :
          LET tk == ev[i].tk
          IN  /\ At(i, "iget_recheck")
              /\ ev[i].tab[tk.inode].i_mount # 0
              /\ tk.empty # NULL
              /\ ev[i].tab[tk.empty].i_count = 1
              /\ inode_table[tk.empty] = ZeroInode
              /\ inode_table[tk.inode].i_count = ev[1].tab[tk.inode].i_count + 1

\* ------------------------------------------------------------- C37
\* the caches are LRU lists, the system runs and only loads were made
LruLoadsOnly == LruCache /\ panicked = "" /\ ext2_call.fn # "ext2_group_descriptor"

\* no group number is at two indexes below the loaded count
NoGroupTwice ==
    \A c \in Caches : \A i, j \in CacheIdx :
        i < j /\ j < ext2_sb[c.ld] => ext2_sb[c.nr][i] # ext2_sb[c.nr][j]

\* the loaded count is within the capacity
LoadedWithinCapacity ==
    \A c \in Caches : ext2_sb[c.ld] >= 0 /\ ext2_sb[c.ld] <= EXT2_MAX_GROUP_LOADED

\* the index a load returned is below the loaded count and is the entry of the
\* requested group; with `strict` it holds the buffer of the group's bitmap
\* block, without it the entry of the block cache may hold no buffer
ReturnedIndexHolds(strict) ==
    \A c \in Caches :
        LoadDone /\ ext2_call.fn = c.fn =>
            /\ ext2_call.ret \in CacheIdx /\ ext2_call.ret < ext2_sb[c.ld]
            /\ ext2_sb[c.nr][ext2_call.ret] = ext2_call.group
            /\ \/ ext2_sb[c.bm][ext2_call.ret] = GroupDesc(ext2_call.group)[c.bg]
               \/ /\ ~strict /\ c.fn = "load_block_bitmap"
                  /\ ext2_sb[c.bm][ext2_call.ret] = NULL

\* a step does not lower a loaded count
LoadedNeverDecreases ==
    LruCache => \A c \in Caches : ext2_sb'[c.ld] >= ext2_sb[c.ld]

\* C37 as stated: in LRU mode, after any sequence of loads, no group number is
\* at two indexes below the loaded count, the loaded count never decreases and
\* never exceeds EXT2_MAX_GROUP_LOADED, and the index a load returns holds a
\* buffer read from the bitmap block of the requested group.
C37_LruCacheSound ==
    /\ [](LruLoadsOnly => NoGroupTwice /\ LoadedWithinCapacity /\ ReturnedIndexHolds(TRUE))
    /\ [][LoadedNeverDecreases]_vars

\* C37, amended: the same, but the index returned holds a buffer read from the
\* bitmap block of the requested group or, after a read of the block bitmap that
\* failed, no buffer.
C37_LruCacheSoundOrNoBuffer ==
    /\ [](LruLoadsOnly => NoGroupTwice /\ LoadedWithinCapacity /\ ReturnedIndexHolds(FALSE))
    /\ [][LoadedNeverDecreases]_vars

\* C37 witness: the block cache is full of different groups, one of them read in
\* vain earlier and moved down since, and the load of another group has returned
\* index 0 with that group's bitmap.
C37_Witness ==
    /\ LruLoadsOnly /\ LoadDone
    /\ ext2_call.fn = "load_block_bitmap"
    /\ ext2_sb.s_loaded_block_bitmaps = EXT2_MAX_GROUP_LOADED
    /\ ext2_call.ret = 0
    /\ ext2_sb.s_block_bitmap_number[0] = ext2_call.group
    /\ ext2_sb.s_block_bitmap[0] = GroupDesc(ext2_call.group).bg_block_bitmap
    /\ \E i \in CacheIdx : i > 0 /\ ext2_sb.s_block_bitmap[i] = NULL
    /\ NoGroupTwice

\* ------------------------------------------------------------- C38
\* ext2_directory reached its loop over the entries
DirectoryScanned ==
    /\ ext2_call.fn = "ext2_directory"
    /\ Len(ext2_call.res.entries) > 0

\* the scan ended: the loop was left and the buffer released
DirectoryScanEnded ==
    /\ DirectoryScanned
    /\ ~ext2_call.res.hung
    /\ ext2_call.io = <<Bread(Abs(ext2_call.arg.block), ""), Brelse(Abs(ext2_call.arg.block))>>

\* no entry that the scan looked at starts at or beyond the end of the block
EntriesStartWithinBlock ==
    ext2_call.fn = "ext2_directory"
    => \A k \in 1 .. Len(ext2_call.res.entries) :
           ext2_call.res.entries[k] < DirBlockSize

\* C38: the scan of ext2_directory terminates for every content of the directory
\* block, also with an entry whose rec_len is 0 or no multiple of 4, and reads
\* no entry at or beyond the end of the block.
C38_DirectoryScanTerminates ==
    /\ (ext2_call.fn = "" /\ ext2_call.arg.is_dir /\ ext2_call.arg.block # 0)
       ~> (ext2_call.fn = "ext2_directory"
           /\ (ext2_call.ret = -EINVAL \/ DirectoryScanEnded))
    /\ []EntriesStartWithinBlock

\* What holds: no entry that starts at or beyond the end of the block is looked
\* at, whatever the block holds; the scan ends unless it comes to an entry whose
\* rec_len is 0; and on a block whose entries all have the rec_len of the
\* layout it visits exactly the entries of the layout, reads nothing but the
\* block and ends.
ScanEndsUnlessZeroRecLen ==
    /\ EntriesStartWithinBlock
    /\ DirectoryScanned
       => \/ DirectoryScanEnded
          \/ /\ hung
             /\ U16(ext2_call.arg.bytes,
                    ext2_call.res.entries[Len(ext2_call.res.entries)] + 4) = 0
    /\ DirectoryScanned /\ ext2_call.arg.bad = 0
       => /\ DirectoryScanEnded
          /\ ext2_call.res.entries =
                 [k \in 1 .. Len(ext2_call.arg.layout) |->
                     DirOffset(ext2_call.arg.layout, k)]
          /\ ext2_call.res.reads \subseteq 0 .. (DirBlockSize - 1)

\* the scan is stuck at an entry whose rec_len is 0
ScanStuckAtZeroRecLen ==
    /\ DirectoryScanned /\ hung
    /\ LET e == ext2_call.res.entries
       IN  U16(ext2_call.arg.bytes, e[Len(e)] + 4) = 0

\* the scan looked at an entry that starts within the block, so close to its
\* end that the rec_len it read lies behind the block
ScanReadBehindBlock ==
    /\ DirectoryScanned
    /\ \E k \in 1 .. Len(ext2_call.res.entries) :
           ext2_call.res.entries[k] + 5 >= DirBlockSize
    /\ ~(ext2_call.res.reads \subseteq 0 .. (DirBlockSize - 1))

\* ------------------------------------------------------------- C39
\* statement i is the test of write_inode, on a slot that is clean or has no device
NothingToWrite(i) ==
    /\ At(i, "wi_check")
    /\ \/ ev[i].tab[ev[i].tk.winode].i_dirt = 0
       \/ ev[i].tab[ev[i].tk.winode].i_dev = 0

\* C39: write_inode on a slot that is clean or has i_dev = 0 writes nothing: it
\* takes the lock, reads no buffer and changes no block, leaves i_dirt and every
\* other field of every slot as they were, and has released the lock when it
\* returns to its caller.
C39_NothingWrittenForCleanOrDeviceless ==
    \A i \in Events :
        LET tk == ev[i].tk
            s  == tk.winode
        IN  /\ At(i, "wi_lock")
               => /\ ev[i + 1].tab = [ev[i].tab EXCEPT ![s].i_lock = 1]
                  /\ ev[i + 1].disk = ev[i].disk
                  /\ ev[i + 1].tk.pc = "wi_check"
            /\ NothingToWrite(i)
               => /\ ev[i].tab[s].i_lock = 1
                  /\ ev[i + 1].tab = [ev[i].tab EXCEPT ![s].i_lock = 0]
                  /\ ev[i + 1].disk = ev[i].disk
                  /\ ev[i + 1].panicked = ""
                  /\ ev[i + 1].tk.pc = Head(tk.ret)
                  /\ ev[i + 1].tk.ret = Tail(tk.ret)

\* C39 witness: write_inode was called for a dirty slot without a device (its
\* device was invalidated, then its holder changed it); it returned, the slot is
\* still dirty, unlocked and otherwise as it was, and no block has changed.
C39_Witness ==
    \E i \in Events :
        LET s == ev[i].tk.winode
        IN  /\ i > 1 /\ At(i - 1, "wi_lock") /\ At(i, "wi_check")
            /\ ev[i].tab[s].i_dirt = 1 /\ ev[i].tab[s].i_dev = 0
            /\ ev[i + 1].tab[s] = ev[i - 1].tab[s]
            /\ ev[i + 1].tab[s].i_lock = 0
            /\ ev[i + 1].disk = ev[i - 1].disk
            /\ panicked = "" /\ ~hung

\* write_inode applied to an inode that is clean, as one call: nothing is read,
\* no block and no field changes
CleanRecordNotWritten ==
    \A s \in RecordSlots : \A ok \in BOOLEAN :
        WriteInodeRecord(s, ok) /\ inode_table[s].i_dirt = 0
        => /\ UNCHANGED <<inode_table, disk>>
           /\ ext2_call'.io = <<>>
           /\ panicked' = ""

CleanRecordsNeverWritten == [][CleanRecordNotWritten]_vars

\* a clean inode was given to write_inode
CleanRecordGiven ==
    /\ ext2_call.fn = "write_inode" /\ ext2_call.io = <<>> /\ panicked = ""
    /\ \E s \in RecordSlots :
          /\ inode_table[s].i_num = ext2_call.ino
          /\ inode_table[s].i_dirt = 0 /\ inode_table[s].i_count > 0

\* ------------------------------------------------------------- C40
\* the tasks that spin in a panic raised between lock_inode and unlock_inode for
\* slot s: panic() does not return, the task never leaves the function
PanickedInside(s) == {t \in Tasks : task[t].pc = "panic" /\ task[t].winode = s}

\* statement i is a statement of read_inode or write_inode after which the task
\* is back in the caller
ReturnsFromLocked(i) ==
    /\ ev[i].tk.pc \in InLock
    /\ ev[i + 1].tk.pc \notin InLock \cup {"panic"}

\* C40: a slot's i_lock is set only while some task is inside read_inode or
\* write_inode for that slot: the lock is set by the lock_inode of those two
\* functions only, every statement of them that returns to the caller leaves the
\* lock clear, and in every state a slot whose lock is set has a task between
\* lock_inode and unlock_inode for it (or spinning in a panic raised there), so
\* that with no task inside every slot has i_lock = 0.
C40_LockedOnlyWhileInside ==
    /\ \A s \in Slots :
          inode_table[s].i_lock # 0 => Holders(s) \cup PanickedInside(s) # {}
    /\ (\A t \in Tasks : task[t].pc \notin InLock \cup {"panic"})
          => \A s \in Slots : inode_table[s].i_lock = 0
    /\ \A i \in Events :
          /\ \A s \in Slots :
                ev[i].tab[s].i_lock = 0 /\ ev[i + 1].tab[s].i_lock # 0
                => ev[i].tk.pc \in LockLabels /\ ev[i].tk.winode = s
          /\ ReturnsFromLocked(i) => ev[i + 1].tab[ev[i].tk.winode].i_lock = 0

\* C40 witness: a task came back from the block I/O of write_inode and returned
\* to its caller; the slot it had locked is unlocked although it was locked when
\* the run began, no task is inside read_inode or write_inode, no lock is set, and
\* a task that had slept for that lock is no longer held up.
C40_Witness ==
    /\ 1 \in Events /\ At(1, "wi_copy") /\ ReturnsFromLocked(1)
    /\ ev[1].tab[ev[1].tk.winode].i_lock = 1
    /\ inode_table[ev[1].tk.winode].i_lock = 0
    /\ \A t \in Tasks : task[t].pc \notin InLock \cup {"panic"}
    /\ \A s \in Slots : inode_table[s].i_lock = 0
    /\ \E u \in Tasks \ {ev[1].t} :
          /\ task[u].pc \in WaitLabels
          /\ WaitInode(task[u]) = ev[1].tk.winode
    /\ panicked = ""

=============================================================================
